---- MODULE Spec2Model ----
(***************************************************************************)
(* A model of the signal-to-order pipeline of the tradebot repository:     *)
(*   - the account resolver            (common/utils/config.py)            *)
(*   - the TradingView normalizer      (services/tv_listener/src/main.py)  *)
(*   - the fan-out orchestrator        (services/signal_orchestrator)      *)
(*   - the order gateway               (services/order_gateway/src/main.py)*)
(*   - the BingX protocol client       (.../exchanges/bingx_client.py)     *)
(*                                                                         *)
(* Python's None is the string "None" on string-typed fields and NoneNum   *)
(* on number-typed fields.  A JSON "code" of an exchange reply is a pair   *)
(* <<type, value>> with type "none", "int" or "str" (the decimal string).  *)
(***************************************************************************)
EXTENDS Integers, Sequences, FiniteSets, TLC

VARIABLES
    env,        \* the process environment: variable name -> value
    cAccount,   \* protocol client: the AccountConfig of the invocation
    cOrder,     \* protocol client: the OpenOrderRequest of the invocation
    cReply,     \* protocol client: what the exchange answered (NoReply before)
    cResult,    \* protocol client: outcome of bingx_place_order (Pending before)
    tvRaw,      \* normalizer: the JSON body of the webhook request
    tvResult,   \* normalizer: outcome of the mapping (NotMapped before)
    tvUpstream, \* webhook: what the orchestrator does with a POST to /signals
    tvPosted,   \* webhook: the bodies POSTed to the orchestrator's /signals
    tvResponse, \* webhook: the HTTP response (NoTvResponse before)
    gwEnv,      \* the environment of the order gateway's process
    pc,         \* handle_signal: "idle", "loop" (before a POST), "await", "done"
    signal,     \* handle_signal: the NormalizedSignal of the request
    accounts,   \* handle_signal: the account ids the profile resolved to
    idx,        \* handle_signal: position of the loop in accounts
    results,    \* handle_signal: the entries appended so far
    response,   \* handle_signal: the HTTP response (NoResponse before)
    posted,     \* the POSTs to /orders/open the orchestrator has made
    gwInbox,    \* the POSTs the gateway has received and not yet handled
    gwReply,    \* the gateway's answer to the POST awaited (NoGwReply before)
    exCalls,    \* the requests sent to the exchange, each with its reply
    rName,      \* account resolver: the profile name asked for
    rResult,    \* account resolver: outcome of the lookup (NotResolved before)
    sParams,    \* signing: the parameter map the caller holds before the calls
    sSecret,    \* signing: the secret
    sCaller,    \* signing: the caller's map as the calls have left it
    sOuts,      \* signing: the strings build_signed_query returned, with the clock
    clock,      \* time.time() in milliseconds
    rtRequest,  \* command routing: the OpenOrderRequest given to the mapping
    rtAction    \* command routing: the RoutedAction returned (NoAction before)

clientVars == <<cAccount, cOrder, cReply, cResult>>
normVars == <<tvRaw, tvResult, tvUpstream, tvPosted, tvResponse>>
orchVars == <<pc, signal, accounts, idx, results, response, posted>>
gwVars == <<gwEnv, gwInbox, gwReply, exCalls>>
resolverVars == <<rName, rResult>>
signVars == <<sParams, sSecret, sCaller, sOuts, clock>>
routeVars == <<rtRequest, rtAction>>
vars == <<env, clientVars, normVars, orchVars, gwVars, resolverVars, signVars, routeVars>>

None == "None"
NoneNum == -1

\* Python's "x or default" on an optional string.
OrElseStr(x, default) == IF x = None \/ x = "" THEN default ELSE x

\* Largest order quantity drawn for a request (quantities are 1..MaxQty).
MaxQty == 1

(***************************************************************************)
(* common/models/tv_command.py                                             *)
(***************************************************************************)
TvCommand ==
    {"ENTER_LONG", "ENTER_SHORT", "EXIT_LONG", "EXIT_SHORT", "EXIT_LONG_ALL",
     "EXIT_SHORT_ALL", "EXIT_LONG_PARTIAL", "EXIT_SHORT_PARTIAL", "CANCEL_ALL"}

Side == {"long", "short"}

(***************************************************************************)
(* common/utils/config.py                                                  *)
(***************************************************************************)
EnvNames ==
    {"BINGX_3_API_KEY", "BINGX_3_API_SECRET", "BINGX_API_KEY", "BINGX_API_SECRET",
     "BINGX_1_API_KEY", "BINGX_1_API_SECRET", "BINGX_2_API_KEY", "BINGX_2_API_SECRET",
     "VST_API_KEY", "VST_SECRET_KEY"}

\* The value a variable holds when it is set to something non-empty: one
\* distinct value per variable, so that the origin of a credential shows.
ValOf(name) == <<"val", name>>
Unset == <<"unset", "">>
Empty == <<"empty", "">>

\* Python truthiness of os.getenv's result: None and "" are falsy.
Truthy(v) == v # Unset /\ v # Empty

\* os.getenv(name) in environment e.
getenv(e, name) == e[name]

AccountConfig(id, mode, pairs, key_env, secret_env, reduce_only) ==
    [account_id |-> id, exchange |-> "bingx", mode |-> mode, env_pairs |-> pairs,
     api_key_env |-> key_env, secret_key_env |-> secret_env,
     supports_reduce_only |-> reduce_only]

_accounts ==
    [id \in {"bingx_primary", "bingx_1", "bingx_2"} |->
        CASE id = "bingx_primary" ->
                AccountConfig("bingx_primary", "test",
                    << <<"BINGX_3_API_KEY", "BINGX_3_API_SECRET">>,
                       <<"BINGX_API_KEY", "BINGX_API_SECRET">> >>,
                    None, None, TRUE)
          [] id = "bingx_1" ->
                AccountConfig("bingx_1", "demo", <<>>,
                    "BINGX_1_API_KEY", "BINGX_1_API_SECRET", FALSE)
          [] id = "bingx_2" ->
                AccountConfig("bingx_2", "demo", <<>>,
                    "BINGX_2_API_KEY", "BINGX_2_API_SECRET", FALSE)]

\* AccountConfig.get_credentials: <<api_key, secret_key>>, Unset for None.
RECURSIVE FirstPair(_, _, _)
FirstPair(pairs, e, i) ==
    IF i > Len(pairs) THEN <<Unset, Unset>>
    ELSE LET api_key == getenv(e, pairs[i][1])
             secret_key == getenv(e, pairs[i][2])
         IN IF Truthy(api_key) /\ Truthy(secret_key)
            THEN <<api_key, secret_key>>
            ELSE FirstPair(pairs, e, i + 1)

get_credentials(account, e) ==
    IF account.env_pairs # <<>>
    THEN FirstPair(account.env_pairs, e, 1)
    ELSE IF account.api_key_env # None /\ account.secret_key_env # None
         THEN <<getenv(e, account.api_key_env), getenv(e, account.secret_key_env)>>
         ELSE <<Unset, Unset>>

\* Variant: an API key alone makes the account available.
_is_account_available_KeyOnly(account_id, e) ==
    IF account_id \notin DOMAIN _accounts THEN FALSE
    ELSE Truthy(get_credentials(_accounts[account_id], e)[1])

\* _is_account_available
_is_account_available(account_id, e) ==
    IF account_id \notin DOMAIN _accounts THEN FALSE
    ELSE LET creds == get_credentials(_accounts[account_id], e)
         IN  Truthy(creds[1]) /\ Truthy(creds[2])

\* _get_available_accounts: the available ids of the list, in its order.
RECURSIVE _get_available_accounts(_, _)
_get_available_accounts(account_ids, e) ==
    IF account_ids = <<>> THEN <<>>
    ELSE (IF _is_account_available(Head(account_ids), e)
          THEN <<Head(account_ids)>> ELSE <<>>)
         \o _get_available_accounts(Tail(account_ids), e)

_routing_profile_definitions ==
    [name \in {"demo_1", "demo_2", "demo_1_2", "default"} |->
        CASE name = "demo_1" -> <<"bingx_1">>
          [] name = "demo_2" -> <<"bingx_2">>
          [] name = "demo_1_2" -> <<"bingx_1", "bingx_2">>
          [] name = "default" -> <<"bingx_1">>]

\* Variant: default stands for the profile of all accounts.
ResolveAlias_AllAccounts(name) == IF name = "default" THEN "demo_1_2" ELSE name

\* Lines 167-169: the name the lookup is made under.
ResolveAlias(name) == IF name = "default" THEN "demo_1" ELSE name

\* get_routing_profile: the ids of the AccountConfigs returned, or ValueError.
get_routing_profile(name, e) ==
    LET resolved == ResolveAlias(name)
    IN  IF resolved \notin DOMAIN _routing_profile_definitions
        THEN [raised |-> "ValueError", detail |-> <<"Unknown routing profile", resolved>>,
              accounts |-> <<>>]
        ELSE [raised |-> None, detail |-> <<None, None>>,
              accounts |-> _get_available_accounts(_routing_profile_definitions[resolved], e)]

(***************************************************************************)
(* services/order_gateway/src/exchanges/bingx_client.py                    *)
(***************************************************************************)
ExitCommands == {"EXIT_LONG", "EXIT_SHORT", "EXIT_LONG_ALL", "EXIT_SHORT_ALL"}

\* Variant: test mode is sent where live orders go.
get_bingx_env_TestIsLive(mode) ==
    IF mode \in {"test", "live"}
    THEN [raised |-> None, base_url |-> "https://open-api.bingx.com",
          order_path |-> "/openApi/swap/v2/trade/order"]
    ELSE IF mode = "demo"
    THEN [raised |-> None, base_url |-> "https://open-api-vst.bingx.com",
          order_path |-> "/openApi/swap/v2/trade/order"]
    ELSE [raised |-> "ValueError", base_url |-> None, order_path |-> None]

\* get_bingx_env: the host and path of a mode, or a ValueError.
get_bingx_env(mode) ==
    CASE mode = "test" ->
            [raised |-> None, base_url |-> "https://open-api.bingx.com",
             order_path |-> "/openApi/swap/v2/trade/order/test"]
      [] mode = "demo" ->
            [raised |-> None, base_url |-> "https://open-api-vst.bingx.com",
             order_path |-> "/openApi/swap/v2/trade/order"]
      [] mode = "live" ->
            [raised |-> None, base_url |-> "https://open-api.bingx.com",
             order_path |-> "/openApi/swap/v2/trade/order"]
      [] OTHER ->
            [raised |-> "ValueError", base_url |-> None, order_path |-> None]

\* _map_position_side on a side of the Side literal type.
_map_position_side(side) ==
    CASE side \in {"buy", "long"} -> "LONG"
      [] side \in {"sell", "short"} -> "SHORT"
      [] OTHER -> "ValueError"

(***************************************************************************)
(* build_signed_query (bingx_client.py).  A Python str is the sequence of   *)
(* its characters; Ascii gives the code point of the characters in use.     *)
(***************************************************************************)
Ascii ==
    (" " :> 32) @@ ("%" :> 37) @@ ("&" :> 38) @@ ("+" :> 43) @@
    ("-" :> 45) @@ ("." :> 46) @@ ("/" :> 47) @@ ("0" :> 48) @@
    ("1" :> 49) @@ ("2" :> 50) @@ ("3" :> 51) @@ ("4" :> 52) @@
    ("5" :> 53) @@ ("6" :> 54) @@ ("7" :> 55) @@ ("8" :> 56) @@
    ("9" :> 57) @@ ("=" :> 61) @@ ("A" :> 65) @@ ("B" :> 66) @@
    ("C" :> 67) @@ ("D" :> 68) @@ ("E" :> 69) @@ ("F" :> 70) @@
    ("G" :> 71) @@ ("H" :> 72) @@ ("I" :> 73) @@ ("J" :> 74) @@
    ("K" :> 75) @@ ("L" :> 76) @@ ("M" :> 77) @@ ("N" :> 78) @@
    ("O" :> 79) @@ ("P" :> 80) @@ ("Q" :> 81) @@ ("R" :> 82) @@
    ("S" :> 83) @@ ("T" :> 84) @@ ("U" :> 85) @@ ("V" :> 86) @@
    ("W" :> 87) @@ ("X" :> 88) @@ ("Y" :> 89) @@ ("Z" :> 90) @@
    ("_" :> 95) @@ ("a" :> 97) @@ ("b" :> 98) @@ ("c" :> 99) @@
    ("d" :> 100) @@ ("e" :> 101) @@ ("f" :> 102) @@ ("g" :> 103) @@
    ("h" :> 104) @@ ("i" :> 105) @@ ("j" :> 106) @@ ("k" :> 107) @@
    ("l" :> 108) @@ ("m" :> 109) @@ ("n" :> 110) @@ ("o" :> 111) @@
    ("p" :> 112) @@ ("q" :> 113) @@ ("r" :> 114) @@ ("s" :> 115) @@
    ("t" :> 116) @@ ("u" :> 117) @@ ("v" :> 118) @@ ("w" :> 119) @@
    ("x" :> 120) @@ ("y" :> 121) @@ ("z" :> 122) @@ ("~" :> 126)

HexLower == <<"0", "1", "2", "3", "4", "5", "6", "7", "8", "9", "a", "b", "c", "d", "e", "f">>
HexUpper == <<"0", "1", "2", "3", "4", "5", "6", "7", "8", "9", "A", "B", "C", "D", "E", "F">>

\* str(n) for a natural number n.
RECURSIVE Decimal(_)
Decimal(n) == IF n < 10 THEN <<HexLower[n + 1]>> ELSE Decimal(n \div 10) \o <<HexLower[(n % 10) + 1]>>

\* A parameter value is <<"str", text>>, <<"float", repr>> or <<"int", n>>;
\* StrOf is str(value), which urlencode applies to what is no str.
StrOf(value) == IF value[1] = "int" THEN Decimal(value[2]) ELSE value[2]

\* urllib.parse.quote_plus on one character and on a text.
Unreserved(ch) ==
    \/ Ascii[ch] \in 48 .. 57
    \/ Ascii[ch] \in 65 .. 90
    \/ Ascii[ch] \in 97 .. 122
    \/ ch \in {"_", ".", "-", "~"}
QuoteChar(ch) ==
    IF Unreserved(ch) THEN <<ch>>
    ELSE IF ch = " " THEN <<"+">>
    ELSE <<"%", HexUpper[(Ascii[ch] \div 16) + 1], HexUpper[(Ascii[ch] % 16) + 1]>>
RECURSIVE quote_plus(_)
quote_plus(text) ==
    IF text = <<>> THEN <<>> ELSE QuoteChar(Head(text)) \o quote_plus(Tail(text))

\* Python's < on two str: by code point, a proper prefix first.
RECURSIVE StrLess(_, _)
StrLess(a, b) ==
    IF b = <<>> THEN FALSE
    ELSE IF a = <<>> THEN TRUE
    ELSE IF Head(a) # Head(b) THEN Ascii[Head(a)] < Ascii[Head(b)]
    ELSE StrLess(Tail(a), Tail(b))

\* sorted(params.items(), key=lambda kv: kv[0]): the keys in ascending order.
RECURSIVE SortedKeys(_)
SortedKeys(keys) ==
    IF keys = {} THEN <<>>
    ELSE LET least == CHOOSE k \in keys : \A other \in keys \ {k} : StrLess(k, other)
         IN  <<least>> \o SortedKeys(keys \ {least})

\* urlencode(items, doseq=False) on the items of params in the order of keys.
RECURSIVE urlencode(_, _)
urlencode(params, keys) ==
    IF keys = <<>> THEN <<>>
    ELSE quote_plus(Head(keys)) \o <<"=">> \o quote_plus(StrOf(params[Head(keys)]))
         \o (IF Len(keys) > 1 THEN <<"&">> ELSE <<>>)
         \o urlencode(params, Tail(keys))

\* hmac.new(key, msg, hashlib.sha256): 32 bytes that are a function of key and
\* msg.  SHA-256 itself is not computed; DigestByte mixes the code points of
\* both texts in its place.
RECURSIVE Mix(_, _, _)
Mix(text, i, j) ==
    IF j > Len(text) THEN 0 ELSE Ascii[text[j]] * (i + j) + Mix(text, i, j + 1)
DigestByte(key, msg, i) == (Mix(key, i, 1) * 31 + Mix(msg, i + 7, 1)) % 256
hmac_sha256(key, msg) == [i \in 1 .. 32 |-> DigestByte(key, msg, i)]

\* bytes.hex(): two lowercase hexadecimal digits per byte.
RECURSIVE hexdigest(_)
hexdigest(bytes) ==
    IF bytes = <<>> THEN <<>>
    ELSE <<HexLower[(Head(bytes) \div 16) + 1], HexLower[(Head(bytes) % 16) + 1]>>
         \o hexdigest(Tail(bytes))

TimestampKey == <<"t", "i", "m", "e", "s", "t", "a", "m", "p">>
SignatureMark == <<"&", "s", "i", "g", "n", "a", "t", "u", "r", "e", "=">>

\* params.setdefault("timestamp", now) on a map.
SetDefault(params, key, value) ==
    IF key \in DOMAIN params THEN params
    ELSE [k \in DOMAIN params \cup {key} |-> IF k = key THEN value ELSE params[k]]

\* Variant: the timestamp is set on the caller's map, no copy being made.
build_signed_query_InPlace(params, secret, now) ==
    LET stamped == SetDefault(params, TimestampKey, <<"int", now>>)
        query == urlencode(stamped, SortedKeys(DOMAIN stamped))
        signature == hexdigest(hmac_sha256(secret, query))
    IN  [out |-> query \o SignatureMark \o signature, caller_params |-> stamped]

\* build_signed_query(params, secret) when int(time.time() * 1000) is now: the
\* string returned, and the caller's map as the call leaves it.
build_signed_query(params, secret, now) ==
    LET copy == SetDefault(params, TimestampKey, <<"int", now>>)
        query == urlencode(copy, SortedKeys(DOMAIN copy))
        signature == hexdigest(hmac_sha256(secret, query))
    IN  [out |-> query \o SignatureMark \o signature, caller_params |-> params]

(***************************************************************************)
(* bingx_place_order (bingx_client.py)                                      *)
(***************************************************************************)
\* Variant: the direction is not flipped for an exit.
WireSide_NoFlip(command, side) == IF side = "long" THEN "BUY" ELSE "SELL"

\* The buy/sell direction of lines 164-172.
WireSide(command, side) ==
    IF command \in ExitCommands
    THEN (IF side = "long" THEN "SELL" ELSE "BUY")
    ELSE (IF side = "long" THEN "BUY" ELSE "SELL")

\* Variant: every exit carries reduceOnly, supported or not.
ReduceOnly_EveryExit(command, account) == command \in ExitCommands

\* The reduceOnly parameter of lines 192-194.
ReduceOnly(command, account) ==
    command \in ExitCommands /\ account.supports_reduce_only

\* The parameters and target of the POST of lines 183-234.
BuildRequest(account, order, bxenv, creds) ==
    [account_id |-> account.account_id,
     mode |-> account.mode,
     base_url |-> bxenv.base_url,
     order_path |-> bxenv.order_path,
     api_key |-> creds[1],
     secret |-> creds[2],
     command |-> order.command,
     symbol |-> order.symbol,
     side |-> WireSide(order.command, order.side),
     type |-> IF order.entry_type = "market" THEN "MARKET" ELSE "LIMIT",
     quantity |-> order.quantity,
     positionSide |-> _map_position_side(order.side),
     reduceOnly |-> ReduceOnly(order.command, account),
     price |-> IF order.entry_type = "limit" /\ order.price # NoneNum
               THEN order.price ELSE NoneNum]

\* What the exchange can answer to one POST.  A code is <<"none", 0>> when the
\* body has no code, <<"int", n>> for the number n, <<"str", n>> for the decimal
\* string of n and <<"text", 0>> for a string that is no number.
NoPositionCode == 101205
OtherApiCode == NoPositionCode + 1
JsonCodes ==
    {<<"none", 0>>, <<"int", 0>>, <<"str", 0>>, <<"int", NoPositionCode>>,
     <<"str", NoPositionCode>>, <<"int", OtherApiCode>>, <<"text", 0>>}

\* Response.raise_for_status of the httpx installed (no version is pinned):
\* it raises for every status that is not 2xx, or only for 4xx and 5xx.
HttpxLibs == {"raise_non_2xx", "raise_4xx_5xx"}

ExchangeReply(kind, http_status, code, lib) ==
    [kind |-> kind, status |-> http_status, code |-> code, lib |-> lib]

ExchangeReplies ==
    {ExchangeReply(k, 0, <<"none", 0>>, "raise_non_2xx") : k \in {"timeout", "connect_error"}}
    \cup {ExchangeReply("response", 200, c, "raise_non_2xx") : c \in JsonCodes}
    \cup {ExchangeReply("response", 302, <<"none", 0>>, lib) : lib \in HttpxLibs}
    \cup {ExchangeReply("response", s, c, "raise_non_2xx") :
            s \in {400, 500}, c \in {<<"none", 0>>, <<"int", OtherApiCode>>}}

\* Line 296: resp.raise_for_status() raises.
RaisesForStatus(reply) ==
    \/ reply.status >= 400
    \/ (reply.status < 200 \/ reply.status >= 300) /\ reply.lib = "raise_non_2xx"

\* Lines 295-340: the classification of a received response.  int(code)
\* raises ValueError for a string that is no number.
ClassifyResponse(reply) ==
    IF RaisesForStatus(reply)
    THEN [raised |-> "HTTPStatusError", api_code |-> 0, is_no_position |-> FALSE]
    ELSE IF reply.code[1] = "none" \/ reply.code = <<"int", 0>> \/ reply.code = <<"str", 0>>
    THEN [raised |-> None, api_code |-> 0, is_no_position |-> FALSE]
    ELSE IF reply.code[1] = "text"
    THEN [raised |-> "ValueError", api_code |-> 0, is_no_position |-> FALSE]
    ELSE IF reply.code[2] = NoPositionCode
    THEN [raised |-> "BingxAPIError", api_code |-> reply.code[2], is_no_position |-> TRUE]
    ELSE [raised |-> "BingxAPIError", api_code |-> reply.code[2], is_no_position |-> FALSE]

\* No exchange reply yet, and no outcome yet.
NoReply == ExchangeReply("none", 0, <<"none", 0>>, "raise_non_2xx")
Pending == [raised |-> "pending", sent |-> <<>>, api_code |-> 0, is_no_position |-> FALSE]

NotSent(exc) ==
    [raised |-> exc, sent |-> <<>>, api_code |-> 0, is_no_position |-> FALSE]

\* bingx_place_order(account_config, order) in environment e, the exchange
\* answering reply if it is asked: what was raised (None for a return), the
\* requests sent, and the API code and soft-error flag of a BingxAPIError.
bingx_place_order(account_config, order, e, reply) ==
    LET creds == get_credentials(account_config, e)
        bxenv == get_bingx_env(account_config.mode)
    IN  IF ~Truthy(creds[1]) \/ ~Truthy(creds[2]) THEN NotSent("ValueError")
        ELSE IF bxenv.raised # None THEN NotSent("ValueError")
        ELSE IF order.side = None THEN NotSent("AttributeError")
        ELSE IF order.quantity = NoneNum THEN NotSent("ValueError")
        ELSE LET req == BuildRequest(account_config, order, bxenv, creds)
                 cls == ClassifyResponse(reply)
             IN  IF reply.kind # "response"
                 THEN [raised |-> "HTTPError", sent |-> <<req>>, api_code |-> 0,
                       is_no_position |-> FALSE]
                 ELSE [raised |-> cls.raised, sent |-> <<req>>,
                       api_code |-> cls.api_code, is_no_position |-> cls.is_no_position]

(***************************************************************************)
(* services/order_gateway/src/main.py                                      *)
(*                                                                         *)
(* A JSON object is a function from its keys; Get is dict.get.             *)
(***************************************************************************)
Get(data, key, default) == IF key \in DOMAIN data THEN data[key] ELSE default

\* Variant: the side of the request, when it has one, goes into the action.
map_command_to_action_RequestSide(request) ==
    LET command == request.command
        side == IF request.side # None THEN request.side
                ELSE IF command \in {"ENTER_LONG", "EXIT_LONG", "EXIT_LONG_ALL",
                                     "EXIT_LONG_PARTIAL"} THEN "long"
                ELSE IF command = "CANCEL_ALL" THEN None
                ELSE "short"
    IN  CASE command \in {"ENTER_LONG", "ENTER_SHORT"} ->
                [action_type |-> "OPEN_POSITION", side |-> side,
                 quantity |-> request.quantity, tp_close_pct |-> NoneNum]
          [] command \in {"EXIT_LONG", "EXIT_SHORT"} ->
                [action_type |-> "CLOSE_POSITION_FULL", side |-> side,
                 quantity |-> request.quantity, tp_close_pct |-> NoneNum]
          [] command \in {"EXIT_LONG_ALL", "EXIT_SHORT_ALL"} ->
                [action_type |-> "CLOSE_POSITION_FULL", side |-> side,
                 quantity |-> NoneNum, tp_close_pct |-> NoneNum]
          [] command \in {"EXIT_LONG_PARTIAL", "EXIT_SHORT_PARTIAL"} ->
                [action_type |-> "CLOSE_POSITION_PARTIAL", side |-> side,
                 quantity |-> NoneNum, tp_close_pct |-> request.tp_close_pct]
          [] command = "CANCEL_ALL" ->
                [action_type |-> "CLOSE_ALL_POSITIONS", side |-> side,
                 quantity |-> NoneNum, tp_close_pct |-> NoneNum]

\* map_command_to_action: the action type, side and quantity of the action.
map_command_to_action(request) ==
    LET command == request.command
    IN  CASE command = "ENTER_LONG" ->
                [action_type |-> "OPEN_POSITION", side |-> "long",
                 quantity |-> request.quantity, tp_close_pct |-> NoneNum]
          [] command = "ENTER_SHORT" ->
                [action_type |-> "OPEN_POSITION", side |-> "short",
                 quantity |-> request.quantity, tp_close_pct |-> NoneNum]
          [] command = "EXIT_LONG" ->
                [action_type |-> "CLOSE_POSITION_FULL", side |-> "long",
                 quantity |-> request.quantity, tp_close_pct |-> NoneNum]
          [] command = "EXIT_SHORT" ->
                [action_type |-> "CLOSE_POSITION_FULL", side |-> "short",
                 quantity |-> request.quantity, tp_close_pct |-> NoneNum]
          [] command = "EXIT_LONG_ALL" ->
                [action_type |-> "CLOSE_POSITION_FULL", side |-> "long",
                 quantity |-> NoneNum, tp_close_pct |-> NoneNum]
          [] command = "EXIT_SHORT_ALL" ->
                [action_type |-> "CLOSE_POSITION_FULL", side |-> "short",
                 quantity |-> NoneNum, tp_close_pct |-> NoneNum]
          [] command = "EXIT_LONG_PARTIAL" ->
                [action_type |-> "CLOSE_POSITION_PARTIAL", side |-> "long",
                 quantity |-> NoneNum, tp_close_pct |-> request.tp_close_pct]
          [] command = "EXIT_SHORT_PARTIAL" ->
                [action_type |-> "CLOSE_POSITION_PARTIAL", side |-> "short",
                 quantity |-> NoneNum, tp_close_pct |-> request.tp_close_pct]
          [] command = "CANCEL_ALL" ->
                [action_type |-> "CLOSE_ALL_POSITIONS", side |-> None,
                 quantity |-> NoneNum, tp_close_pct |-> NoneNum]

\* An HTTP answer of the gateway and the requests its client sent meanwhile.
GwAnswer(http, body, sent) == [http |-> http, body |-> body, sent |-> sent]
GwError(http, detail, sent) == GwAnswer(http, [detail |-> detail], sent)

\* Lines 296-302: the body of an accepted order.
AcceptedBody(account_cfg, order_id) ==
    [status |-> "accepted", mode |-> account_cfg.mode, exchange |-> account_cfg.exchange,
     order_id |-> order_id, raw |-> "response"]

\* Variant: a ValueError of the client is answered like a gateway error.
HttpOfException_ValueErrorIs502(exc) ==
    CASE exc = "RuntimeError" -> 400
      [] OTHER -> 502

\* Lines 303-333: the except clause an exception of the client lands in.
\* BingxAPIError derives from Exception, httpx.HTTPError too; neither is a
\* ValueError or a RuntimeError.
HttpOfException(exc) ==
    CASE exc = "ValueError" -> 400
      [] exc = "RuntimeError" -> 400
      [] OTHER -> 502

DetailOfException(exc) ==
    CASE exc = "ValueError" -> "validation"
      [] exc = "RuntimeError" -> "BingX API error"
      [] OTHER -> "Failed to place order on BingX"

\* Variant: a dry account goes to the exchange client like every other.
handle_bingx_order_NoDryShortcut(account_cfg, request, e, reply) ==
    LET r == bingx_place_order([account_cfg EXCEPT !.mode =
                                    IF @ = "dry" THEN "live" ELSE @], request, e, reply)
    IN  IF r.raised = None
        THEN GwAnswer(200, AcceptedBody(account_cfg, "orderId"), r.sent)
        ELSE GwError(HttpOfException(r.raised), DetailOfException(r.raised), r.sent)

\* handle_bingx_order
handle_bingx_order(account_cfg, request, e, reply) ==
    IF account_cfg.mode = "dry"
    THEN GwAnswer(200, [status |-> "accepted", mode |-> "dry",
                        exchange |-> account_cfg.exchange, order_id |-> "dryrun"], <<>>)
    ELSE LET r == bingx_place_order(account_cfg, request, e, reply)
         IN  IF r.raised = None
             THEN GwAnswer(200, AcceptedBody(account_cfg, "orderId"), r.sent)
             ELSE GwError(HttpOfException(r.raised), DetailOfException(r.raised), r.sent)

\* Lines 207-212 and 231-236: the checks before the order is handled.  With
\* no side in the request the copy OpenOrderRequest(**request.model_dump(),
\* side=action.side) passes side twice, a TypeError that nothing catches.
RequiredFields(request, action) ==
    IF request.quantity = NoneNum \/ request.quantity <= 0
    THEN [http |-> 400, detail |-> "quantity required"]
    ELSE IF request.side = None
    THEN (IF action.side = None
          THEN [http |-> 400, detail |-> "side required"]
          ELSE [http |-> 500, detail |-> "Internal Server Error"])
    ELSE [http |-> 200, detail |-> None]

\* Variant: every full close, the _ALL commands included, is sent to the
\* exchange.
open_order_with_AllFullExits(account_cfg, request, e, reply) ==
    LET action == map_command_to_action(request)
        checked == RequiredFields(request, action)
    IN  IF action.action_type \in {"CLOSE_POSITION_FULL", "OPEN_POSITION"}
        THEN (IF request.side = None THEN GwError(500, "Internal Server Error", <<>>)
              ELSE handle_bingx_order(account_cfg, request, e, reply))
        ELSE GwAnswer(200, [status |-> "accepted", mode |-> account_cfg.mode,
                            exchange |-> account_cfg.exchange,
                            action |-> action.action_type,
                            note |-> "Action recognized but not implemented yet"],
                      <<>>)

\* Lines 175-239 of open_order: the request handled for the AccountConfig
\* that get_account returned.
open_order_with(account_cfg, request, e, reply) ==
    LET action == map_command_to_action(request)
        checked == RequiredFields(request, action)
    IN  IF action.action_type = "CLOSE_POSITION_FULL"
           /\ request.command \in {"EXIT_LONG", "EXIT_SHORT"}
        THEN (IF checked.http # 200 THEN GwError(checked.http, checked.detail, <<>>)
              ELSE handle_bingx_order(account_cfg, request, e, reply))
        ELSE IF action.action_type # "OPEN_POSITION"
        THEN GwAnswer(200, [status |-> "accepted", mode |-> account_cfg.mode,
                            exchange |-> account_cfg.exchange,
                            action |-> action.action_type,
                            note |-> "Action recognized but not implemented yet"],
                      <<>>)
        ELSE IF checked.http # 200 THEN GwError(checked.http, checked.detail, <<>>)
        ELSE handle_bingx_order(account_cfg, request, e, reply)

\* open_order, POST /orders/open
open_order(request, e, reply) ==
    IF request.account_id \notin DOMAIN _accounts
    THEN GwError(400, "Unknown account_id", <<>>)
    ELSE open_order_with(_accounts[request.account_id], request, e, reply)

(***************************************************************************)
(* services/signal_orchestrator/src/main.py                                *)
(***************************************************************************)
Response(http, status, routed, res, detail) ==
    [http |-> http, status |-> status, routed_accounts |-> routed, results |-> res,
     detail |-> detail]
NoResponse == Response(0, None, 0, <<>>, <<>>)

\* raise HTTPException(status_code=status.HTTP_400_BAD_REQUEST, detail=...)
\* inside handle_signal.  Line 138 assigns status in the function, so the name
\* is a local of handle_signal, unbound until the first reply of the gateway:
\* evaluating status.HTTP_400_BAD_REQUEST before the loop raises
\* UnboundLocalError, which the server answers with 500.
RaiseBadRequest(detail) ==
    Response(500, None, 0, <<>>, <<"Internal Server Error">>)

\* Lines 76-103: the detail of the rejection, <<>> when the signal passes.
ValidateSignal(sig) ==
    IF sig.command \in {"ENTER_LONG", "ENTER_SHORT"}
    THEN (IF sig.quantity = NoneNum \/ sig.quantity <= 0
          THEN <<"quantity required for ENTER commands">>
          ELSE IF sig.side = None THEN <<"side required for ENTER commands">>
          ELSE <<>>)
    ELSE IF sig.command \in {"EXIT_LONG", "EXIT_SHORT"}
    THEN (IF sig.quantity = NoneNum \/ sig.quantity <= 0
          THEN <<"quantity required for EXIT commands">>
          ELSE IF sig.side = None THEN <<"side required for EXIT commands">>
          ELSE <<>>)
    ELSE <<>>

\* Variant: the signal is validated before the empty profile is noticed.
RouteSignal_ValidateFirst(sig, e) ==
    LET profile_name == OrElseStr(sig.routing_profile, "default")
        rp == get_routing_profile(profile_name, e)
        invalid == ValidateSignal(sig)
    IN  IF rp.raised # None
        THEN [accounts |-> <<>>, response |-> RaiseBadRequest(rp.detail)]
        ELSE IF invalid # <<>>
        THEN [accounts |-> <<>>, response |-> RaiseBadRequest(invalid)]
        ELSE IF Len(rp.accounts) = 0
        THEN [accounts |-> <<>>, response |-> Response(200, "dropped", 0, <<>>, <<>>)]
        ELSE [accounts |-> rp.accounts, response |-> NoResponse]

\* Lines 39-103: the routing of the signal: the accounts to dispatch to, or
\* the response that ends the request before any dispatch.
RouteSignal(sig, e) ==
    LET profile_name == OrElseStr(sig.routing_profile, "default")
        rp == get_routing_profile(profile_name, e)
        invalid == ValidateSignal(sig)
    IN  IF rp.raised # None
        THEN [accounts |-> <<>>, response |-> RaiseBadRequest(rp.detail)]
        ELSE IF Len(rp.accounts) = 0
        THEN [accounts |-> <<>>, response |-> Response(200, "dropped", 0, <<>>, <<>>)]
        ELSE IF invalid # <<>>
        THEN [accounts |-> <<>>, response |-> RaiseBadRequest(invalid)]
        ELSE [accounts |-> rp.accounts, response |-> NoResponse]

\* Lines 108-131: the OpenOrderRequest for one account.
BuildOrderRequest(sig, account_id) ==
    [account_id |-> account_id, symbol |-> sig.symbol, command |-> sig.command,
     side |-> sig.side, quantity |-> sig.quantity,
     entry_type |-> sig.entry_type, price |-> sig.entry_price,
     tp_close_pct |-> NoneNum]

\* An entry of results; its status is the text "200" or "error".
ErrorEntry(account_id, error) ==
    [account_id |-> account_id, status |-> "error", error |-> error]
SuccessEntry(account_id) ==
    [account_id |-> account_id, status |-> "200", error |-> None]

\* Lines 138-205: the entry recorded for a reply of the gateway.
EntryOfReply(account_id, http, data) ==
    LET api_code == Get(data, "api_code", NoneNum)
        order_status == Get(data, "order_status", None)
        ok == Get(data, "ok", FALSE)
    IN  IF http # 200 THEN ErrorEntry(account_id, "HTTP status")
        ELSE IF order_status = "no_position" /\ api_code = 101205
        THEN SuccessEntry(account_id)
        ELSE IF ~ok THEN ErrorEntry(account_id, Get(data, "api_msg", "Unknown error"))
        ELSE SuccessEntry(account_id)

\* Lines 206-212: the entry recorded for an httpx.HTTPError of the POST.
EntryOfHTTPError(account_id, kind) == ErrorEntry(account_id, kind)

\* Variant: routed_accounts counts the entries that are no error.
Processed_CountSuccesses(accts, res) ==
    Response(200, "processed",
             Cardinality({i \in DOMAIN res : res[i].status # "error"}), res, <<>>)

\* Lines 214-218
Processed(accts, res) == Response(200, "processed", Len(accts), res, <<>>)

(***************************************************************************)
(* services/tv_listener/src/main.py                                        *)
(*                                                                         *)
(* A text is a sequence of words; str.strip() drops the blank words at its *)
(* ends, str.upper()/lower() change the case of each word, and a phrase is *)
(* a substring of a text when its words occur next to each other.          *)
(***************************************************************************)
\* A JSON field that is absent, and one that is null: texts of one reserved
\* word each, which no payload text contains.
Absent == <<"<absent>">>
NoneT == <<"<null>">>

UpperWord(w) ==
    CASE w = "enter_long" -> "ENTER_LONG"
      [] w = "exit_short" -> "EXIT_SHORT"
      [] w = "Cancel_All" -> "CANCEL_ALL"
      [] w = "enter" -> "ENTER"
      [] w = "close" -> "CLOSE"
      [] w = "buy" -> "BUY"
      [] w = "sell" -> "SELL"
      [] w = "long" -> "LONG"
      [] w = "short" -> "SHORT"
      [] w = "Sell" -> "SELL"
      [] w = "hold" -> "HOLD"
      [] w = "market" -> "MARKET"
      [] w = "limit" -> "LIMIT"
      [] w = "Limit" -> "LIMIT"
      [] w = "stop" -> "STOP"
      [] OTHER -> w

LowerWord(w) ==
    CASE w = "BUY" -> "buy"
      [] w = "Sell" -> "sell"
      [] w = "SHORT" -> "short"
      [] w = "Long" -> "long"
      [] w = "Short" -> "short"
      [] w = "Entry" -> "entry"
      [] w = "EXIT" -> "exit"
      [] w = "TP" -> "tp"
      [] w = "Limit" -> "limit"
      [] w = "MARKET" -> "market"
      [] OTHER -> w

Blank == " "

RECURSIVE Strip(_)
Strip(t) ==
    IF t = <<>> THEN t
    ELSE IF Head(t) = Blank THEN Strip(Tail(t))
    ELSE IF t[Len(t)] = Blank THEN Strip(SubSeq(t, 1, Len(t) - 1))
    ELSE t

Upper(t) == [i \in DOMAIN t |-> UpperWord(t[i])]
Lower(t) == [i \in DOMAIN t |-> LowerWord(t[i])]

\* phrase in text
Contains(text, phrase) ==
    \E i \in 0 .. (Len(text) - Len(phrase)) :
        \A j \in DOMAIN phrase : text[i + j] = phrase[j]

\* value or default, for Python's "x or default" on an optional text.
OrElse(x, default) == IF x = NoneT \/ x = <<>> THEN default ELSE x

\* TradingViewWebhookPayload: the fields of the JSON body with the model's
\* defaults filled in for the absent ones.
TradingViewWebhookPayload(raw) ==
    [command |-> IF raw.command = Absent THEN <<"ENTER">> ELSE raw.command,
     symbol |-> raw.symbol,
     side |-> IF raw.side = Absent THEN NoneT ELSE raw.side,
     order_type |-> IF raw.order_type = Absent THEN <<"market">> ELSE raw.order_type,
     entry_type |-> IF raw.entry_type = Absent THEN NoneT ELSE raw.entry_type,
     code |-> IF raw.code = Absent THEN NoneT ELSE raw.code,
     entry_price |-> raw.entry_price,
     quantity |-> raw.quantity,
     routing_profile |-> raw.routing_profile]

\* TradingViewWebhookPayload.get_order_type
get_order_type(payload) ==
    Lower(OrElse(payload.order_type, OrElse(payload.entry_type, <<"market">>)))

\* _map_command_to_side
_map_command_to_side(command) ==
    CASE command \in {"ENTER_LONG", "EXIT_LONG", "EXIT_LONG_ALL", "EXIT_LONG_PARTIAL"} -> "long"
      [] command \in {"ENTER_SHORT", "EXIT_SHORT", "EXIT_SHORT_ALL", "EXIT_SHORT_PARTIAL"} -> "short"
      [] OTHER -> None

\* TvCommand(command_str) succeeds: the text is one word, a member of the enum.
IsTvCommand(t) == Len(t) = 1 /\ t[1] \in TvCommand

\* str.startswith on the enum's members.
StartsWith(w, prefix) ==
    CASE prefix = "ENTER_LONG" -> w = "ENTER_LONG"
      [] prefix = "EXIT_LONG" -> w \in {"EXIT_LONG", "EXIT_LONG_ALL", "EXIT_LONG_PARTIAL"}
      [] prefix = "ENTER_SHORT" -> w = "ENTER_SHORT"
      [] prefix = "EXIT_SHORT" -> w \in {"EXIT_SHORT", "EXIT_SHORT_ALL", "EXIT_SHORT_PARTIAL"}
      [] OTHER -> FALSE

NormOk(command_str, side_norm) ==
    [raised |-> None, detail |-> None, command_str |-> command_str, side_norm |-> side_norm]
NormError(detail) ==
    [raised |-> "ValueError", detail |-> detail, command_str |-> None, side_norm |-> None]

\* Lines 191-204: the side of the payload, "invalid" when it is no side.
SideNorm(payload) ==
    IF payload.side = NoneT \/ payload.side = <<>> THEN None
    ELSE LET side_raw == Strip(Lower(payload.side))
         IN  IF side_raw \in {<<"buy">>, <<"long">>} THEN "long"
             ELSE IF side_raw \in {<<"sell">>, <<"short">>} THEN "short"
             ELSE "invalid"

\* Variant: the side field is consulted before the code text.
IntentAndDir_SideFirst(payload, side_norm) ==
    LET code_raw == Strip(Lower(OrElse(payload.code, <<>>)))
    IN  IF side_norm # None THEN <<"ENTER", side_norm>>
        ELSE IF Contains(code_raw, <<"short", "exit">>) THEN <<"EXIT", "short">>
        ELSE IF Contains(code_raw, <<"long", "exit">>) THEN <<"EXIT", "long">>
        ELSE IF Contains(code_raw, <<"short", "entry">>) THEN <<"ENTER", "short">>
        ELSE IF Contains(code_raw, <<"long", "entry">>) THEN <<"ENTER", "long">>
        ELSE <<"ENTER", None>>

\* Lines 206-227: <<intent, dir_from_code>>.
IntentAndDir(payload, side_norm) ==
    LET code_raw == Strip(Lower(OrElse(payload.code, <<>>)))
    IN  IF Contains(code_raw, <<"short", "exit">>) THEN <<"EXIT", "short">>
        ELSE IF Contains(code_raw, <<"long", "exit">>) THEN <<"EXIT", "long">>
        ELSE IF Contains(code_raw, <<"short", "entry">>) THEN <<"ENTER", "short">>
        ELSE IF Contains(code_raw, <<"long", "entry">>) THEN <<"ENTER", "long">>
        ELSE IF side_norm # None THEN <<"ENTER", side_norm>>
        ELSE <<"ENTER", None>>

\* normalize_tradingview_payload
normalize_tradingview_payload(payload) ==
    LET command_str == Upper(Strip(OrElse(payload.command, <<"ENTER">>)))
        side_norm == SideNorm(payload)
        id == IntentAndDir(payload, side_norm)
    IN  IF IsTvCommand(command_str)
        THEN NormOk(command_str[1],
                    IF StartsWith(command_str[1], "ENTER_LONG")
                       \/ StartsWith(command_str[1], "EXIT_LONG") THEN "long"
                    ELSE IF StartsWith(command_str[1], "ENTER_SHORT")
                       \/ StartsWith(command_str[1], "EXIT_SHORT") THEN "short"
                    ELSE None)
        ELSE IF side_norm = "invalid" THEN NormError("Invalid side")
        ELSE IF id = <<"ENTER", "long">> THEN NormOk("ENTER_LONG", side_norm)
        ELSE IF id = <<"ENTER", "short">> THEN NormOk("ENTER_SHORT", side_norm)
        ELSE IF id = <<"EXIT", "long">> THEN NormOk("EXIT_LONG", side_norm)
        ELSE IF id = <<"EXIT", "short">> THEN NormOk("EXIT_SHORT", side_norm)
        ELSE IF side_norm # None
             THEN NormOk(IF side_norm = "long" THEN "ENTER_LONG" ELSE "ENTER_SHORT", side_norm)
        ELSE IF command_str \notin {<<"ENTER">>, <<>>}
             THEN NormError("Unsupported command")
        ELSE NormError("Cannot determine command")

NoSignal ==
    [command |-> None, symbol |-> None, side |-> None, entry_type |-> None,
     entry_price |-> NoneNum, quantity |-> NoneNum, routing_profile |-> None]

MapOk(sig) == [raised |-> None, detail |-> None, signal |-> sig]
MapError(detail) == [raised |-> "ValueError", detail |-> detail, signal |-> NoSignal]
NotMapped == [raised |-> "pending", detail |-> None, signal |-> NoSignal]

\* Variant: the side of the payload wins over the side of the command.
NormalizedSide_PayloadFirst(command, normalized_side) ==
    IF normalized_side # None THEN normalized_side ELSE _map_command_to_side(command)

\* Lines 287-294: the side of the signal.
NormalizedSide(command, normalized_side) ==
    LET side_from_command == _map_command_to_side(command)
    IN  IF side_from_command # None THEN side_from_command
        ELSE IF normalized_side = None THEN _map_command_to_side(command)
        ELSE normalized_side

\* map_tradingview_payload_to_normalized_signal; the NormalizedSignal model
\* rejects (ValidationError, a ValueError) a quantity or price that is not > 0.
map_tradingview_payload_to_normalized_signal(payload) ==
    LET n == normalize_tradingview_payload(payload)
        normalized_entry_type == get_order_type(payload)
    IN  IF n.raised # None THEN MapError(n.detail)
        ELSE IF normalized_entry_type \notin {<<"market">>, <<"limit">>}
             THEN MapError("Invalid order_type")
        ELSE IF normalized_entry_type = <<"limit">> /\ payload.entry_price = NoneNum
             THEN MapError("entry_price required for limit orders")
        ELSE IF (payload.entry_price # NoneNum /\ payload.entry_price <= 0)
                \/ (payload.quantity # NoneNum /\ payload.quantity <= 0)
             THEN MapError("validation error for NormalizedSignal")
        ELSE MapOk([command |-> n.command_str,
                    symbol |-> payload.symbol,
                    side |-> NormalizedSide(n.command_str, n.side_norm),
                    entry_type |-> normalized_entry_type[1],
                    entry_price |-> payload.entry_price,
                    quantity |-> payload.quantity,
                    routing_profile |-> OrElseStr(payload.routing_profile, "default")])

\* The fields that the class NormalizedSignal declares; the model ignores
\* any other keyword given to its constructor, and reading any other
\* attribute of an instance raises AttributeError.
NormalizedSignalFields ==
    {"command", "source", "strategy_name", "symbol", "side", "entry_type", "entry_price",
     "quantity", "leverage", "margin_type", "risk_per_trade_pct", "tp_close_pct",
     "stop_loss", "take_profits", "routing_profile", "timestamp", "raw_payload"}
HasAttr(name) == name \in NormalizedSignalFields

\* What the orchestrator does with the POST: it answers with a status, or
\* the call raises an httpx.HTTPError.
UpstreamReply(kind, http_status) == [kind |-> kind, status |-> http_status]
NoUpstream == UpstreamReply("none", 0)
UpstreamReplies ==
    {UpstreamReply("response", 200), UpstreamReply("response", 500),
     UpstreamReply("timeout", 0)}

TvResponse(http, status, upstream_status, detail) ==
    [http |-> http, status |-> status, upstream_status |-> upstream_status, detail |-> detail]
NoTvResponse == TvResponse(0, None, 0, None)

\* tradingview_webhook: <<outcome of the mapping, bodies POSTed, response>>.
\* An exception that the handler does not catch is answered with 500.
tradingview_webhook(raw, upstream) ==
    LET m == map_tradingview_payload_to_normalized_signal(TradingViewWebhookPayload(raw))
    IN  IF m.raised # None
        THEN <<m, <<>>, TvResponse(400, None, 0, m.detail)>>
        ELSE IF \E name \in {"command", "symbol", "side", "entry_type", "quantity", "code"} :
                    ~HasAttr(name)
        THEN <<m, <<>>, TvResponse(500, None, 0, "AttributeError")>>
        ELSE IF upstream.kind = "response"
        THEN <<m, <<m.signal>>, TvResponse(200, "forwarded", upstream.status, None)>>
        ELSE <<m, <<m.signal>>, TvResponse(502, None, 0, "Failed to forward signal")>>

(***************************************************************************)
(* The normalizer on its own: every payload shape, one mapping.            *)
(***************************************************************************)
RawCommands ==
    {Absent, NoneT, <<>>, <<"ENTER">>, <<"enter">>, <<"CLOSE">>, <<"enter_long">>,
     <<Blank, "exit_short", Blank>>, <<"Cancel_All">>}
    \cup {<<c>> : c \in TvCommand}
RawSides ==
    {Absent, NoneT, <<>>, <<"buy">>, <<"sell">>, <<"long">>, <<"short">>, <<"BUY">>,
     <<Blank, "Sell">>, <<"hold">>}
RawCodes ==
    {Absent, NoneT, <<"short", "exit">>, <<"long", "exit">>, <<"short", "entry">>,
     <<"Long", "Entry">>, <<"TP", "long", "exit", "now">>, <<"exit", "long">>,
     <<"short", "entry", "long", "exit">>}
RawOrderTypes ==
    {<<Absent, Absent>>, <<Absent, <<"limit">>>>, <<NoneT, <<"limit">>>>,
     <<<<"Limit">>, Absent>>, <<<<"market">>, <<"limit">>>>, <<<<"stop">>, Absent>>}
RawQuantities == {NoneNum} \cup (0 .. MaxQty)
RawPrices == {NoneNum, 1}

RawPayloads ==
    {[command |-> c, symbol |-> "BTCUSDT", side |-> s, code |-> k,
      order_type |-> t[1], entry_type |-> t[2], entry_price |-> p, quantity |-> q,
      routing_profile |-> None] :
        c \in RawCommands, s \in RawSides, k \in RawCodes, t \in RawOrderTypes,
        p \in RawPrices, q \in RawQuantities}

(***************************************************************************)
(* The protocol client on its own: every account shape and order, one      *)
(* invocation of bingx_place_order.                                        *)
(***************************************************************************)
Modes == {"dry", "test", "demo", "live"}

\* The accounts the client is invoked for: the registry's, and accounts of
\* every mode shaped like the one of tests/test_bingx_position_side.py.
ClientAccounts ==
    {_accounts[id] : id \in DOMAIN _accounts}
    \cup {AccountConfig("demo_account", m, <<>>, "VST_API_KEY", "VST_SECRET_KEY", r) :
            m \in Modes, r \in BOOLEAN}

NamesOf(account) ==
    {account.env_pairs[i][j] : i \in DOMAIN account.env_pairs, j \in {1, 2}}
    \cup ({account.api_key_env, account.secret_key_env} \ {None})

\* The environments that differ in the variables the names are about.
EnvsOver(names) ==
    {[n \in EnvNames |->
        IF n \notin names THEN Unset
        ELSE CASE f[n] = "unset" -> Unset
               [] f[n] = "empty" -> Empty
               [] OTHER -> ValOf(n)] :
        f \in [names -> {"unset", "empty", "set"}]}

Quantities == {NoneNum} \cup (1 .. MaxQty)

OpenOrderRequests ==
    {[account_id |-> None, symbol |-> "BTCUSDT", command |-> c, side |-> s,
      quantity |-> q, entry_type |-> t[1], price |-> t[2], tp_close_pct |-> NoneNum] :
        c \in TvCommand, s \in Side \cup {None}, q \in Quantities,
        t \in {<<"market", NoneNum>>, <<"limit", NoneNum>>, <<"limit", 1>>}}

\* The inputs of the signing on its own.
SignKey(name) ==
    CASE name = "symbol" -> <<"s", "y", "m", "b", "o", "l">>
      [] name = "side" -> <<"s", "i", "d", "e">>
      [] name = "quantity" -> <<"q", "u", "a", "n", "t", "i", "t", "y">>
      [] name = "timestamp" -> TimestampKey
SignValues(name) ==
    CASE name = "symbol" -> {<<"str", <<"B", "T", "C", "-", "U", "S", "D", "T">>>>, <<"str", <<"B", "T", "C", "/", "U", "S", "D", " ", "T">>>>}
      [] name = "side" -> {<<"str", <<"B", "U", "Y">>>>}
      [] name = "quantity" -> {<<"float", <<"0", ".", "0", "0", "1">>>>, <<"int", 1>>}
      [] name = "timestamp" -> {<<"int", 1700>>}
SignNames == {"symbol", "side", "quantity", "timestamp"}
ParamMaps ==
    UNION {[{SignKey(n) : n \in names} ->
                UNION {SignValues(n) : n \in names}] : names \in SUBSET SignNames}
WellTyped(params) ==
    \A n \in SignNames : SignKey(n) \in DOMAIN params => params[SignKey(n)] \in SignValues(n)
Secrets == {<<"t", "e", "s", "t", "_", "s", "e", "c", "r", "e", "t">>, <<"k", "2">>}

\* The inputs of the command routing on its own: every command with every
\* side, quantity and partial-close percentage.
ClosePcts == {NoneNum, 50}
RouteRequests ==
    {[r EXCEPT !.tp_close_pct = p] : r \in OpenOrderRequests, p \in ClosePcts}
NoAction ==
    [action_type |-> None, side |-> None, quantity |-> NoneNum, tp_close_pct |-> NoneNum]
RouteIdle ==
    /\ rtRequest = CHOOSE r \in RouteRequests : TRUE
    /\ rtAction = NoAction

SignIdle ==
    /\ sParams = [k \in {} |-> <<"int", 0>>]
    /\ sSecret = <<>>
    /\ sCaller = sParams
    /\ sOuts = <<>>
    /\ clock = 1

ClientIdle ==
    /\ cAccount = _accounts["bingx_1"]
    /\ cOrder = CHOOSE o \in OpenOrderRequests : TRUE
    /\ cReply = NoReply
    /\ cResult = Pending

WebhookIdle ==
    /\ tvUpstream = NoUpstream
    /\ tvPosted = <<>>
    /\ tvResponse = NoTvResponse

NormIdle ==
    /\ tvRaw = CHOOSE r \in RawPayloads : TRUE
    /\ tvResult = NotMapped
    /\ WebhookIdle

NoEnv == [n \in EnvNames |-> Unset]

NotResolved ==
    [raised |-> "pending", detail |-> <<None, None>>, accounts |-> <<>>,
     available |-> [id \in DOMAIN _accounts |-> FALSE]]

ResolverIdle ==
    /\ rName = None
    /\ rResult = NotResolved

(***************************************************************************)
(* The pipeline: one signal through handle_signal, the gateway handling    *)
(* the orders posted to it, the exchange answering.  The orchestrator and  *)
(* the gateway are two processes, each with its own environment.           *)
(***************************************************************************)
NoGwReply == GwAnswer(0, [detail |-> None], <<>>)

\* The credentials of bingx_1 and bingx_2 in an environment of the pipeline.
CredStates == {"none", "key_only", "both"}
EnvOf(st) ==
    [n \in EnvNames |->
        CASE n = "BINGX_1_API_KEY" -> IF st[1] = "none" THEN Unset ELSE ValOf(n)
          [] n = "BINGX_1_API_SECRET" -> IF st[1] = "both" THEN ValOf(n) ELSE Unset
          [] n = "BINGX_2_API_KEY" -> IF st[2] = "none" THEN Unset ELSE ValOf(n)
          [] n = "BINGX_2_API_SECRET" -> IF st[2] = "both" THEN ValOf(n) ELSE Unset
          [] OTHER -> Unset]
PipelineEnvs == {EnvOf(st) : st \in CredStates \X CredStates}

RoutingProfiles == {None, "default", "demo_1", "demo_2", "demo_1_2", "demo_3"}

NormalizedSignals ==
    {[command |-> c, symbol |-> "BTCUSDT", side |-> s, entry_type |-> "market",
      entry_price |-> NoneNum, quantity |-> q, routing_profile |-> r] :
        c \in TvCommand, s \in Side \cup {None}, q \in Quantities, r \in RoutingProfiles}

\* The replies of the exchange drawn in the pipeline.
PipelineReplies ==
    {r \in ExchangeReplies :
        \/ r.kind = "timeout"
        \/ r.status = 200 /\ r.code \in {<<"int", 0>>, <<"int", NoPositionCode>>,
                                         <<"int", OtherApiCode>>}
        \/ r.status = 500 /\ r.code = <<"none", 0>>}

PipelineIdle ==
    /\ pc = "idle"
    /\ signal = NoSignal
    /\ accounts = <<>>
    /\ idx = 1
    /\ results = <<>>
    /\ response = NoResponse
    /\ posted = <<>>
    /\ gwInbox = {}
    /\ gwReply = NoGwReply
    /\ exCalls = <<>>

Init ==
    /\ SignIdle
    /\ RouteIdle
    /\ ClientIdle
    /\ NormIdle
    /\ ResolverIdle
    /\ env \in PipelineEnvs
    /\ gwEnv \in PipelineEnvs
    /\ PipelineIdle

\* POST /signals: lines 37-103 of handle_signal.
ReceiveSignal ==
    /\ pc = "idle"
    /\ \E sig \in NormalizedSignals :
        LET routed == RouteSignal(sig, env)
        IN  /\ signal' = sig
            /\ accounts' = routed.accounts
            /\ response' = routed.response
            /\ pc' = IF routed.response = NoResponse THEN "loop" ELSE "done"
    /\ UNCHANGED <<env, routeVars, signVars, clientVars, normVars, resolverVars, gwVars, idx, results, posted>>

\* Variant: an error entry ends the loop.
Advance_AbortOnError(entry) ==
    /\ results' = Append(results, entry)
    /\ idx' = idx + 1
    /\ gwReply' = NoGwReply
    /\ IF idx = Len(accounts) \/ entry.status = "error"
       THEN /\ pc' = "done"
            /\ response' = Processed(accounts, Append(results, entry))
       ELSE /\ pc' = "loop"
            /\ UNCHANGED response

\* The end of one iteration of the loop with entry appended: the next
\* iteration, or lines 214-218 after the last one.
Advance(entry) ==
    /\ results' = Append(results, entry)
    /\ idx' = idx + 1
    /\ gwReply' = NoGwReply
    /\ IF idx = Len(accounts)
       THEN /\ pc' = "done"
            /\ response' = Processed(accounts, Append(results, entry))
       ELSE /\ pc' = "loop"
            /\ UNCHANGED response

\* Lines 107-137: the request of the next account reaches the gateway.
Dispatch ==
    /\ pc = "loop"
    /\ LET req == BuildOrderRequest(signal, accounts[idx])
       IN  /\ posted' = Append(posted, req)
           /\ gwInbox' = gwInbox \cup {[idx |-> idx, req |-> req]}
    /\ pc' = "await"
    /\ UNCHANGED <<env, routeVars, signVars, clientVars, normVars, resolverVars, gwEnv, gwReply, exCalls,
                   signal, accounts, idx, results, response>>

\* Variant: the POST that failed to connect is delivered to the gateway all
\* the same.
DispatchConnectError_Delivered ==
    /\ pc = "loop"
    /\ posted' = Append(posted, BuildOrderRequest(signal, accounts[idx]))
    /\ gwInbox' = gwInbox \cup {[idx |-> idx, req |-> BuildOrderRequest(signal, accounts[idx])]}
    /\ Advance(EntryOfHTTPError(accounts[idx], "connect_error"))
    /\ UNCHANGED <<env, routeVars, signVars, clientVars, normVars, resolverVars, gwEnv, exCalls,
                   signal, accounts>>

\* Lines 107-137 and 206-212: the POST fails to connect to the gateway.
DispatchConnectError ==
    /\ pc = "loop"
    /\ posted' = Append(posted, BuildOrderRequest(signal, accounts[idx]))
    /\ Advance(EntryOfHTTPError(accounts[idx], "connect_error"))
    /\ UNCHANGED <<env, routeVars, signVars, clientVars, normVars, resolverVars, gwEnv, gwInbox, exCalls,
                   signal, accounts>>

\* POST /orders/open: the gateway handles one request it has received, the
\* exchange answering its client's call; the answer reaches the orchestrator
\* if it still awaits it.
GatewayOpenOrder ==
    /\ \E m \in gwInbox, reply \in PipelineReplies :
        LET ans == open_order(m.req, gwEnv, reply)
        IN  /\ gwInbox' = gwInbox \ {m}
            /\ exCalls' = exCalls \o [i \in DOMAIN ans.sent |->
                                        [request |-> ans.sent[i], reply |-> reply]]
            /\ gwReply' = IF pc = "await" /\ m.idx = idx THEN ans ELSE gwReply
    /\ UNCHANGED <<env, routeVars, signVars, clientVars, normVars, resolverVars, gwEnv, orchVars>>

\* Lines 138-205: the gateway's answer arrives.
ReceiveReply ==
    /\ pc = "await"
    /\ gwReply # NoGwReply
    /\ Advance(EntryOfReply(accounts[idx], gwReply.http, gwReply.body))
    /\ UNCHANGED <<env, routeVars, signVars, clientVars, normVars, resolverVars, gwEnv, gwInbox, exCalls,
                   signal, accounts, posted>>

\* Lines 206-212: the POST times out, whatever the gateway has done with it.
ReplyTimeout ==
    /\ pc = "await"
    /\ Advance(EntryOfHTTPError(accounts[idx], "timeout"))
    /\ UNCHANGED <<env, routeVars, signVars, clientVars, normVars, resolverVars, gwEnv, gwInbox, exCalls,
                   signal, accounts, posted>>

Next ==
    \/ ReceiveSignal
    \/ Dispatch
    \/ DispatchConnectError
    \/ GatewayOpenOrder
    \/ ReceiveReply
    \/ ReplyTimeout

Spec == Init /\ [][Next]_vars

InitClient ==
    /\ SignIdle
    /\ RouteIdle
    /\ NormIdle
    /\ ResolverIdle
    /\ PipelineIdle
    /\ gwEnv = NoEnv
    /\ cAccount \in ClientAccounts
    /\ cOrder \in OpenOrderRequests
    /\ env \in EnvsOver(NamesOf(cAccount))
    /\ cReply = NoReply
    /\ cResult = Pending

\* bingx_place_order is invoked; the exchange gives one reply per behaviour.
PlaceOrder ==
    /\ cResult = Pending
    /\ \E reply \in ExchangeReplies :
        /\ cReply \in {NoReply, reply}
        /\ cReply' = reply
        /\ cResult' = bingx_place_order(cAccount, cOrder, env, reply)
    /\ UNCHANGED <<env, routeVars, signVars, cAccount, cOrder, normVars, orchVars, gwVars, resolverVars>>

\* handle_bingx_order is invoked on the same account and order.
HandleBingxOrder ==
    /\ gwReply = NoGwReply
    /\ \E reply \in ExchangeReplies :
        LET ans == handle_bingx_order(cAccount, cOrder, env, reply)
        IN  /\ cReply \in {NoReply, reply}
            /\ cReply' = reply
            /\ gwReply' = ans
            /\ exCalls' = [i \in DOMAIN ans.sent |->
                                [request |-> ans.sent[i], reply |-> reply]]
    /\ UNCHANGED <<env, routeVars, signVars, cAccount, cOrder, cResult, normVars, orchVars, gwEnv, gwInbox,
                   resolverVars>>

NextClient ==
    \/ PlaceOrder
    \/ HandleBingxOrder

SpecClient == InitClient /\ [][NextClient]_vars

InitNorm ==
    /\ SignIdle
    /\ RouteIdle
    /\ ClientIdle
    /\ ResolverIdle
    /\ PipelineIdle
    /\ gwEnv = NoEnv
    /\ env = NoEnv
    /\ tvRaw \in RawPayloads
    /\ tvResult = NotMapped
    /\ WebhookIdle

MapPayload ==
    /\ tvResult = NotMapped
    /\ tvResult' = map_tradingview_payload_to_normalized_signal(
                        TradingViewWebhookPayload(tvRaw))
    /\ UNCHANGED <<env, routeVars, signVars, clientVars, tvRaw, tvUpstream, tvPosted, tvResponse,
                   orchVars, gwVars, resolverVars>>

NextNorm == MapPayload

SpecNorm == InitNorm /\ [][NextNorm]_vars

(***************************************************************************)
(* The webhook endpoint on its own: every payload shape and every answer   *)
(* of the orchestrator, one request.                                       *)
(***************************************************************************)
InitWebhook ==
    /\ SignIdle
    /\ RouteIdle
    /\ ClientIdle
    /\ ResolverIdle
    /\ PipelineIdle
    /\ gwEnv = NoEnv
    /\ env = NoEnv
    /\ tvRaw \in RawPayloads
    /\ tvUpstream \in UpstreamReplies
    /\ tvResult = NotMapped
    /\ tvPosted = <<>>
    /\ tvResponse = NoTvResponse

TradingviewWebhook ==
    /\ tvResponse = NoTvResponse
    /\ LET out == tradingview_webhook(tvRaw, tvUpstream)
       IN  /\ tvResult' = out[1]
           /\ tvPosted' = out[2]
           /\ tvResponse' = out[3]
    /\ UNCHANGED <<env, routeVars, signVars, clientVars, tvRaw, tvUpstream, orchVars, gwVars,
                   resolverVars>>

NextWebhook == TradingviewWebhook

SpecWebhook == InitWebhook /\ [][NextWebhook]_vars

(***************************************************************************)
(* The account resolver on its own: every environment of the registry's    *)
(* variables, one lookup.                                                  *)
(***************************************************************************)
ProfileNames == {"default", "demo_1", "demo_2", "demo_1_2", "demo_3"}

RegistryNames == UNION {NamesOf(_accounts[id]) : id \in DOMAIN _accounts}

InitResolve ==
    /\ SignIdle
    /\ RouteIdle
    /\ ClientIdle
    /\ NormIdle
    /\ PipelineIdle
    /\ gwEnv = NoEnv
    /\ env \in EnvsOver(RegistryNames)
    /\ rName \in ProfileNames
    /\ rResult = NotResolved

Resolve ==
    /\ rResult = NotResolved
    /\ LET rp == get_routing_profile(rName, env)
       IN  rResult' = [raised |-> rp.raised, detail |-> rp.detail, accounts |-> rp.accounts,
                       available |-> [id \in DOMAIN _accounts |->
                                        _is_account_available(id, env)]]
    /\ UNCHANGED <<env, routeVars, signVars, clientVars, normVars, orchVars, gwVars, rName>>

NextResolve == Resolve

SpecResolve == InitResolve /\ [][NextResolve]_vars

(***************************************************************************)
(* The gateway on its own: one request to /orders/open for an AccountConfig *)
(* that get_account returns, the registry's or one installed in its place   *)
(* as the tests do, in every environment of the account's variables.        *)
(***************************************************************************)
InitGateway ==
    /\ SignIdle
    /\ RouteIdle
    /\ NormIdle
    /\ ResolverIdle
    /\ env = NoEnv
    /\ pc = "idle"
    /\ signal = NoSignal
    /\ accounts = <<>>
    /\ idx = 1
    /\ results = <<>>
    /\ response = NoResponse
    /\ posted = <<>>
    /\ gwInbox = {}
    /\ gwReply = NoGwReply
    /\ exCalls = <<>>
    /\ cAccount \in ClientAccounts
    /\ cOrder \in OpenOrderRequests
    /\ gwEnv \in EnvsOver(NamesOf(cAccount))
    /\ cReply = NoReply
    /\ cResult = Pending

HandleOrder ==
    /\ gwReply = NoGwReply
    /\ \E reply \in ExchangeReplies :
        LET ans == open_order_with(cAccount,
                        [cOrder EXCEPT !.account_id = cAccount.account_id], gwEnv, reply)
        IN  /\ cReply' = reply
            /\ gwReply' = ans
            /\ exCalls' = [i \in DOMAIN ans.sent |->
                                [request |-> ans.sent[i], reply |-> reply]]
    /\ UNCHANGED <<env, routeVars, signVars, cAccount, cOrder, cResult, normVars, orchVars, gwEnv, gwInbox,
                   resolverVars>>

NextGateway == HandleOrder

SpecGateway == InitGateway /\ [][NextGateway]_vars

(***************************************************************************)
(* The command routing on its own: every request, one mapping.             *)
(***************************************************************************)
InitRoute ==
    /\ SignIdle
    /\ ClientIdle
    /\ NormIdle
    /\ ResolverIdle
    /\ PipelineIdle
    /\ env = NoEnv
    /\ gwEnv = NoEnv
    /\ rtRequest \in RouteRequests
    /\ rtAction = NoAction

RouteCommand ==
    /\ rtAction = NoAction
    /\ rtAction' = map_command_to_action(rtRequest)
    /\ UNCHANGED <<env, signVars, clientVars, normVars, orchVars, gwVars, resolverVars,
                   rtRequest>>

NextRoute == RouteCommand

SpecRoute == InitRoute /\ [][NextRoute]_vars

(***************************************************************************)
(* The signing on its own: build_signed_query called twice by a caller that *)
(* holds one parameter map, the clock advancing in between or not.          *)
(***************************************************************************)
MaxClock == 3

InitSign ==
    /\ RouteIdle
    /\ ClientIdle
    /\ NormIdle
    /\ ResolverIdle
    /\ PipelineIdle
    /\ env = NoEnv
    /\ gwEnv = NoEnv
    /\ sParams \in {m \in ParamMaps : WellTyped(m)}
    /\ sSecret \in Secrets
    /\ sCaller = sParams
    /\ sOuts = <<>>
    /\ clock = 1

Sign ==
    /\ Len(sOuts) < 2
    /\ LET r == build_signed_query(sCaller, sSecret, clock)
       IN  /\ sOuts' = Append(sOuts, [out |-> r.out, at |-> clock])
           /\ sCaller' = r.caller_params
    /\ UNCHANGED <<env, routeVars, clientVars, normVars, orchVars, gwVars, resolverVars, sParams,
                   sSecret, clock>>

Tick ==
    /\ clock < MaxClock
    /\ clock' = clock + 1
    /\ UNCHANGED <<env, routeVars, clientVars, normVars, orchVars, gwVars, resolverVars, sParams,
                   sSecret, sCaller, sOuts>>

NextSign ==
    \/ Sign
    \/ Tick

SpecSign == InitSign /\ [][NextSign]_vars

(***************************************************************************)
(* The claims.                                                             *)
(***************************************************************************)

\* C1: every order bingx_place_order sends is BUY for entry-long and
\* exit-short, SELL for entry-short and exit-long, and its positionSide is
\* LONG for the logical side long and SHORT for short, never flipped.
C1_SideAndPositionSide ==
    \A i \in DOMAIN cResult.sent :
        LET r == cResult.sent[i]
            entry == cOrder.command \in {"ENTER_LONG", "ENTER_SHORT"}
            exit == cOrder.command \in
                        {"EXIT_LONG", "EXIT_SHORT", "EXIT_LONG_ALL", "EXIT_SHORT_ALL"}
        IN  /\ cOrder.side \in {"long", "short"}
            /\ (entry /\ cOrder.side = "long") => r.side = "BUY"
            /\ (exit /\ cOrder.side = "short") => r.side = "BUY"
            /\ (entry /\ cOrder.side = "short") => r.side = "SELL"
            /\ (exit /\ cOrder.side = "long") => r.side = "SELL"
            /\ cOrder.side = "long" => r.positionSide = "LONG"
            /\ cOrder.side = "short" => r.positionSide = "SHORT"

C1_Witness ==
    /\ Len(cResult.sent) = 1
    /\ cOrder.command = "EXIT_LONG"
    /\ cOrder.side = "long"
    /\ cResult.sent[1].side = "SELL"
    /\ cResult.sent[1].positionSide = "LONG"

\* C2: a mapped signal whose command implies a side carries that side (long
\* for the LONG commands, short for the SHORT ones), whatever the payload's
\* side field holds.
C2_SideFromCommand ==
    (tvResult.raised = None /\ tvResult.signal.command # "CANCEL_ALL") =>
        tvResult.signal.side =
            IF tvResult.signal.command \in
                {"ENTER_LONG", "EXIT_LONG", "EXIT_LONG_ALL", "EXIT_LONG_PARTIAL"}
            THEN "long" ELSE "short"

C2_Witness ==
    /\ tvRaw.command = Absent
    /\ tvRaw.code = <<"short", "exit">>
    /\ tvRaw.side = <<"buy">>
    /\ tvResult.raised = None
    /\ tvResult.signal.command = "EXIT_SHORT"
    /\ tvResult.signal.side = "short"

\* The exchange call made for the account of entry i of results, if any.
ExchangeCallsFor(account_id) ==
    {k \in DOMAIN exCalls : exCalls[k].request.account_id = account_id}

FromGatewayReply(entry) == entry.error \notin {"timeout", "connect_error"}

\* C3 (as claimed): when the exchange answers a bare EXIT order with HTTP 200
\* and code 101205 and the gateway's answer reaches the orchestrator, the
\* entry of that account is a success entry (status 200), and the response
\* is status processed.
C3_NoPositionIsSuccess ==
    \A i \in DOMAIN results :
        (/\ FromGatewayReply(results[i])
         /\ \E k \in ExchangeCallsFor(results[i].account_id) :
                /\ exCalls[k].request.command \in {"EXIT_LONG", "EXIT_SHORT"}
                /\ exCalls[k].reply.kind = "response"
                /\ exCalls[k].reply.status = 200
                /\ exCalls[k].reply.code = <<"int", 101205>>)
        => /\ results[i].status = "200"
           /\ pc = "done" => response.status = "processed"

\* C4 (as claimed): when the gateway's answer to an account's order is HTTP
\* 200 with status accepted, as handle_bingx_order returns it, the entry
\* recorded for that account is a success entry; and an ENTER_LONG signal on
\* demo_1 with its account available ends with one order posted and
\* routed_accounts 1.
C4_AcceptedIsSuccess ==
    [][/\ (/\ pc = "await"
           /\ gwReply.http = 200
           /\ Get(gwReply.body, "status", None) = "accepted"
           /\ "order_id" \in DOMAIN gwReply.body
           /\ Len(results') = Len(results) + 1
           /\ FromGatewayReply(results'[Len(results')]))
          => results'[Len(results')].status = "200"
       /\ (/\ pc' = "done"
           /\ signal'.command = "ENTER_LONG"
           /\ signal'.routing_profile = "demo_1"
           /\ accounts' # <<>>)
          => (Len(posted') = 1 /\ response'.routed_accounts = 1)]_vars

\* C5: a failed dispatch never keeps the later accounts of the fan-out from
\* being posted to the gateway and from having an entry in results: once the
\* loop has ended, every resolved account has been posted, in order, and has
\* an entry.
C5_FailureIsolation ==
    (pc = "done" /\ accounts # <<>>) =>
        /\ Len(posted) = Len(accounts)
        /\ \A j \in DOMAIN accounts :
            /\ posted[j].account_id = accounts[j]
            /\ \E k \in DOMAIN results : results[k].account_id = accounts[j]

C5_Witness ==
    /\ pc = "done"
    /\ accounts = <<"bingx_1", "bingx_2">>
    /\ results[1].status = "error"
    /\ results[1].error = "timeout"
    /\ Len(posted) = 2
    /\ results[2].account_id = "bingx_2"

\* C6: a processed response holds one entry per resolved account, in the
\* order of the profile's declaration and tagged with the account's id, and
\* routed_accounts is the number of resolved accounts, however many of the
\* dispatches failed.
C6_OneEntryPerAccount ==
    (pc = "done" /\ response.status = "processed") =>
        /\ Len(response.results) = Len(accounts)
        /\ \A j \in DOMAIN accounts : response.results[j].account_id = accounts[j]
        /\ response.routed_accounts = Len(accounts)
        /\ accounts \in {<<"bingx_1">>, <<"bingx_2">>, <<"bingx_1", "bingx_2">>}
        /\ Len(accounts) = 2 => signal.routing_profile = "demo_1_2"

C6_Witness ==
    /\ pc = "done"
    /\ response.status = "processed"
    /\ response.routed_accounts = 2
    /\ response.results[1].status = "error"
    /\ response.results[1].account_id = "bingx_1"
    /\ response.results[2].account_id = "bingx_2"

\* The profile a signal is routed with, and the declared profiles.
ProfileOf(sig) == IF sig.routing_profile = None THEN "default" ELSE sig.routing_profile
DeclaredAccounts(profile) ==
    CASE profile \in {"demo_1", "default"} -> <<"bingx_1">>
      [] profile = "demo_2" -> <<"bingx_2">>
      [] profile = "demo_1_2" -> <<"bingx_1", "bingx_2">>
      [] OTHER -> <<>>
IsDeclared(profile) == profile \in {"demo_1", "demo_2", "demo_1_2", "default"}

\* The credential pairs of the registry's accounts, and whether one of them
\* holds a non-empty key together with a non-empty secret.
CredentialPairs(account_id) ==
    CASE account_id = "bingx_primary" ->
            {<<"BINGX_3_API_KEY", "BINGX_3_API_SECRET">>,
             <<"BINGX_API_KEY", "BINGX_API_SECRET">>}
      [] account_id = "bingx_1" -> {<<"BINGX_1_API_KEY", "BINGX_1_API_SECRET">>}
      [] account_id = "bingx_2" -> {<<"BINGX_2_API_KEY", "BINGX_2_API_SECRET">>}
NonEmpty(e, name) == e[name] = ValOf(name)
HasCredentials(account_id, e) ==
    \E pair \in CredentialPairs(account_id) : NonEmpty(e, pair[1]) /\ NonEmpty(e, pair[2])

\* C7: a signal on a declared profile none of whose accounts has
\* credentials ends dropped (HTTP 200, status dropped, routed_accounts 0, no
\* results), the lookup returning the empty list without raising, and nothing
\* is sent to the gateway.
C7_NoAccountsDropped ==
    (/\ pc # "idle"
     /\ IsDeclared(ProfileOf(signal))
     /\ \A j \in DOMAIN DeclaredAccounts(ProfileOf(signal)) :
            ~HasCredentials(DeclaredAccounts(ProfileOf(signal))[j], env))
    => /\ get_routing_profile(ProfileOf(signal), env).raised = None
       /\ get_routing_profile(ProfileOf(signal), env).accounts = <<>>
       /\ pc = "done"
       /\ response = Response(200, "dropped", 0, <<>>, <<>>)
       /\ posted = <<>>
       /\ gwInbox = {}
       /\ exCalls = <<>>

C7_Witness ==
    /\ pc = "done"
    /\ signal.routing_profile = "demo_1_2"
    /\ signal.command = "ENTER_LONG"
    /\ signal.quantity = NoneNum
    /\ NonEmpty(env, "BINGX_1_API_KEY")
    /\ ~HasCredentials("bingx_1", env)
    /\ ~HasCredentials("bingx_2", env)
    /\ response.status = "dropped"

\* The accounts of a list that have credentials, in the order of the list.
RECURSIVE WithCredentials(_, _)
WithCredentials(ids, e) ==
    IF ids = <<>> THEN <<>>
    ELSE (IF HasCredentials(Head(ids), e) THEN <<Head(ids)>> ELSE <<>>)
         \o WithCredentials(Tail(ids), e)

C10_UnknownProfileIs400 ==
    (pc = "done" /\ ~IsDeclared(ProfileOf(signal))) =>
        /\ get_routing_profile(ProfileOf(signal), env).raised = "ValueError"
        /\ response.http = 400
        /\ response.detail = <<"Unknown routing profile", ProfileOf(signal)>>
        /\ posted = <<>>

\* The commands handle_signal validates, and a signal that lacks what they
\* require.
ValidatedCommands == {"ENTER_LONG", "ENTER_SHORT", "EXIT_LONG", "EXIT_SHORT"}
LacksQuantityOrSide(sig) == sig.quantity = NoneNum \/ sig.side = None

\* C11 (as claimed): an ENTER_LONG, ENTER_SHORT, EXIT_LONG or EXIT_SHORT signal
\* on a declared profile whose quantity or side is missing is answered with
\* HTTP 400 and a "quantity required"/"side required" detail, and nothing is
\* sent to the gateway, whether the profile's accounts have credentials or not.
C11_MissingFieldIs400 ==
    (/\ pc = "done"
     /\ IsDeclared(ProfileOf(signal))
     /\ signal.command \in ValidatedCommands
     /\ LacksQuantityOrSide(signal))
    => /\ response.http = 400
       /\ response.detail \in
            {<<"quantity required for ENTER commands">>,
             <<"side required for ENTER commands">>,
             <<"quantity required for EXIT commands">>,
             <<"side required for EXIT commands">>}
       /\ posted = <<>>

\* The commands the gateway acknowledges without executing, and the routed
\* action each of them is mapped to.
AcknowledgedCommands ==
    {"EXIT_LONG_ALL", "EXIT_SHORT_ALL", "EXIT_LONG_PARTIAL", "EXIT_SHORT_PARTIAL",
     "CANCEL_ALL"}
ActionKindOf(command) ==
    CASE command \in {"EXIT_LONG_ALL", "EXIT_SHORT_ALL"} -> "CLOSE_POSITION_FULL"
      [] command \in {"EXIT_LONG_PARTIAL", "EXIT_SHORT_PARTIAL"} -> "CLOSE_POSITION_PARTIAL"
      [] command = "CANCEL_ALL" -> "CLOSE_ALL_POSITIONS"
      [] OTHER -> None

\* C12: a request to /orders/open whose command is EXIT_LONG_ALL,
\* EXIT_SHORT_ALL, EXIT_LONG_PARTIAL, EXIT_SHORT_PARTIAL or CANCEL_ALL is
\* answered HTTP 200 with status accepted, the routed action kind and the
\* "not implemented yet" note, with no call to the exchange, in every mode of
\* the account and whatever side, quantity and credentials it comes with.
C12_AcknowledgedNotExecuted ==
    (gwReply # NoGwReply /\ cOrder.command \in AcknowledgedCommands) =>
        /\ gwReply.http = 200
        /\ gwReply.body =
            [status |-> "accepted", mode |-> cAccount.mode, exchange |-> "bingx",
             action |-> ActionKindOf(cOrder.command),
             note |-> "Action recognized but not implemented yet"]
        /\ gwReply.sent = <<>>
        /\ exCalls = <<>>

C12_Witness ==
    /\ gwReply.http = 200
    /\ cOrder.command = "EXIT_LONG_ALL"
    /\ cOrder.side = "long"
    /\ cOrder.quantity = 1
    /\ cAccount.mode = "live"
    /\ Truthy(gwEnv["VST_API_KEY"]) /\ Truthy(gwEnv["VST_SECRET_KEY"])
    /\ gwReply.body.action = "CLOSE_POSITION_FULL"
    /\ exCalls = <<>>

\* A reply with a status below 400 whose body reached the client.
ReceivedBelow400 ==
    /\ cResult.sent # <<>>
    /\ cReply.kind = "response"
    /\ cReply.status < 400

\* C13 (as claimed): a reply with an HTTP status below 400 is classified by
\* its code alone: 0, "0" or no code returns the body; 101205 raises
\* BingxAPIError with is_no_position true; every other code raises
\* BingxAPIError with is_no_position false.
C13_ClassifiedByCode ==
    ReceivedBelow400 =>
        IF cReply.code \in {<<"none", 0>>, <<"int", 0>>, <<"str", 0>>}
        THEN cResult.raised = None
        ELSE IF cReply.code \in {<<"int", 101205>>, <<"str", 101205>>}
        THEN cResult.raised = "BingxAPIError" /\ cResult.is_no_position
        ELSE cResult.raised = "BingxAPIError" /\ ~cResult.is_no_position

\* The exchange answered HTTP 200 with a non-zero API code; the request
\* failed in transport.
ApiLevelFailure ==
    /\ cReply.kind = "response"
    /\ cReply.status = 200
    /\ cReply.code[1] \in {"int", "str"}
    /\ cReply.code[2] # 0
TransportFailure ==
    \/ cReply.kind \in {"timeout", "connect_error"}
    \/ cReply.kind = "response" /\ cReply.status >= 400

\* C14 (as claimed): when the exchange was called, the gateway answers an
\* API-level failure (HTTP 200 carrying a non-zero code) with HTTP 400 and a
\* "BingX API error" detail, and a connection error, a timeout or an exchange
\* status of 400 or more with HTTP 502.
C14_ApiErrorIs400TransportIs502 ==
    gwReply.sent # <<>> =>
        /\ ApiLevelFailure =>
            (gwReply.http = 400 /\ gwReply.body.detail = "BingX API error")
        /\ TransportFailure => gwReply.http = 502

\* The inputs of the invocation pass the checks made before the POST: a key
\* and a secret, a mode with an environment, a side and a quantity.
PassesValidation ==
    /\ Truthy(get_credentials(cAccount, env)[1])
    /\ Truthy(get_credentials(cAccount, env)[2])
    /\ cAccount.mode \in {"test", "demo", "live"}
    /\ cOrder.side # None
    /\ cOrder.quantity # NoneNum

\* C15: an invocation of the protocol client makes at most one request to
\* the exchange: exactly one when the account is a test, demo or live one and
\* the inputs pass validation, whatever the exchange replies; none when the
\* credential, quantity or mode check fails; and none for a dry account, whose
\* order handle_bingx_order accepts with a synthesized order id, credentials
\* or not.
C15_AtMostOneRequest ==
    /\ Len(cResult.sent) <= 1
    /\ Len(gwReply.sent) <= 1
    /\ cResult # Pending =>
        (Len(cResult.sent) = 1 <=> PassesValidation)
    /\ (gwReply # NoGwReply /\ cAccount.mode # "dry") =>
        (Len(gwReply.sent) = 1 <=> PassesValidation)
    /\ (gwReply # NoGwReply /\ cAccount.mode = "dry") =>
        /\ gwReply.sent = <<>>
        /\ exCalls = <<>>
        /\ gwReply.http = 200
        /\ gwReply.body = [status |-> "accepted", mode |-> "dry", exchange |-> "bingx",
                           order_id |-> "dryrun"]

C15_Witness ==
    /\ cAccount.mode = "dry"
    /\ env["VST_API_KEY"] = Unset
    /\ gwReply.http = 200
    /\ gwReply.body.order_id = "dryrun"
    /\ gwReply.sent = <<>>
    /\ cResult.raised = "ValueError"
    /\ cReply.kind = "timeout"

\* The hosts and paths of the exchange, and mode strings of every kind: the
\* modes of an AccountConfig and strings that are no mode.
ProductionHost == "https://open-api.bingx.com"
VstHost == "https://open-api-vst.bingx.com"
RealOrderPath == "/openApi/swap/v2/trade/order"
TestOrderPath == "/openApi/swap/v2/trade/order/test"
ModeStrings == {"dry", "test", "demo", "live", "invalid", "TEST", ""}

\* The requests the invocation has sent, through either entry point.
RequestsSent ==
    {cResult.sent[i] : i \in DOMAIN cResult.sent}
    \cup {gwReply.sent[i] : i \in DOMAIN gwReply.sent}

\* C16: get_bingx_env gives the production host with the /order/test path for
\* test, the VST host with the real order path for demo, the production host
\* with the real order path for live, and raises ValueError for every other
\* mode; and every request sent for a test account goes to the /order/test
\* path of the production host, never to the real order path.
C16_EnvironmentOfMode ==
    /\ \A m \in ModeStrings :
        LET bxenv == get_bingx_env(m)
        IN  CASE m = "test" ->
                    /\ bxenv.raised = None
                    /\ bxenv.base_url = ProductionHost
                    /\ bxenv.order_path = TestOrderPath
              [] m = "demo" ->
                    /\ bxenv.raised = None
                    /\ bxenv.base_url = VstHost
                    /\ bxenv.order_path = RealOrderPath
              [] m = "live" ->
                    /\ bxenv.raised = None
                    /\ bxenv.base_url = ProductionHost
                    /\ bxenv.order_path = RealOrderPath
              [] OTHER -> bxenv.raised = "ValueError"
    /\ \A r \in RequestsSent :
        /\ r.mode = cAccount.mode
        /\ r.mode = "test" =>
            (r.base_url = ProductionHost /\ r.order_path = TestOrderPath)
        /\ r.mode = "demo" => (r.base_url = VstHost /\ r.order_path = RealOrderPath)
        /\ r.mode = "live" =>
            (r.base_url = ProductionHost /\ r.order_path = RealOrderPath)
        /\ r.mode \in {"test", "demo", "live"}

C16_Witness ==
    /\ cAccount.account_id = "bingx_primary"
    /\ cAccount.mode = "test"
    /\ Len(cResult.sent) = 1
    /\ cResult.sent[1].base_url = ProductionHost
    /\ cResult.sent[1].order_path = TestOrderPath
    /\ cResult.raised = None

\* C17: a request sent to the exchange carries reduceOnly=true exactly when
\* the order's command is EXIT_LONG, EXIT_SHORT, EXIT_LONG_ALL or
\* EXIT_SHORT_ALL and the account's supports_reduce_only is true; no entry
\* order and no order of bingx_1 or bingx_2, which declare no support, has it.
C17_ReduceOnlyIffExitAndSupported ==
    \A r \in RequestsSent :
        /\ r.reduceOnly <=>
            (/\ cOrder.command \in
                    {"EXIT_LONG", "EXIT_SHORT", "EXIT_LONG_ALL", "EXIT_SHORT_ALL"}
             /\ cAccount.supports_reduce_only)
        /\ cOrder.command \in {"ENTER_LONG", "ENTER_SHORT"} => ~r.reduceOnly
        /\ cAccount.account_id \in {"bingx_1", "bingx_2"} => ~r.reduceOnly

C17_Witness ==
    /\ cOrder.command = "EXIT_SHORT_ALL"
    /\ cAccount.account_id = "bingx_primary"
    /\ Len(cResult.sent) = 1
    /\ cResult.sent[1].reduceOnly
    /\ cResult.sent[1].side = "BUY"

C17_WitnessUnsupported ==
    /\ cOrder.command = "EXIT_LONG"
    /\ cAccount.account_id = "bingx_1"
    /\ Len(cResult.sent) = 1
    /\ ~cResult.sent[1].reduceOnly

\* The parts of a string build_signed_query returned: the 64 characters of
\* the signature at its end, the "&signature=" before them, and the query
\* before that.
SignatureOf(out) == SubSeq(out, Len(out) - 63, Len(out))
MarkOf(out) == SubSeq(out, Len(out) - 74, Len(out) - 64)
QueryOf(out) == SubSeq(out, 1, Len(out) - 75)

\* The map that is signed at clock reading at: the caller's, with the clock
\* as timestamp when it has none.
SignedMap(at) ==
    IF TimestampKey \in DOMAIN sParams THEN sParams
    ELSE [k \in DOMAIN sParams \cup {TimestampKey} |->
            IF k = TimestampKey THEN <<"int", at>> ELSE sParams[k]]

\* The keys of a map in an order that ascends.
Ascending(keys) ==
    CHOOSE order \in [1 .. Cardinality(keys) -> keys] :
        \A i, j \in DOMAIN order : i < j => StrLess(order[i], order[j])

Count(text, ch) == Cardinality({i \in DOMAIN text : text[i] = ch})

\* C18: the string build_signed_query returns is the URL-encoded parameters
\* in ascending order of their keys, then "&signature=" and the hexadecimal
\* HMAC-SHA256 of exactly that encoded string under the secret; the timestamp
\* in it is the caller's when the map has one and the clock's milliseconds
\* otherwise; and the caller's map is left as it was.
C18_SignedQuery ==
    /\ sCaller = sParams
    /\ \A c \in DOMAIN sOuts :
        LET out == sOuts[c].out
            signed == SignedMap(sOuts[c].at)
            query == QueryOf(out)
        IN  /\ Len(out) > 75
            /\ MarkOf(out) = SignatureMark
            /\ SignatureOf(out) = hexdigest(hmac_sha256(sSecret, query))
            /\ query = urlencode(signed, Ascending(DOMAIN signed))
            /\ Count(query, "=") = Cardinality(DOMAIN signed)
            /\ Count(query, "&") = Cardinality(DOMAIN signed) - 1
            /\ Count(query, "/") = 0 /\ Count(query, " ") = 0
            /\ TimestampKey \in DOMAIN sParams => signed[TimestampKey] = <<"int", 1700>>

C18_Witness ==
    /\ Len(sOuts) = 2
    /\ sOuts[2].at = 2
    /\ DOMAIN sParams = {SignKey("symbol"), SignKey("side"), SignKey("quantity")}
    /\ sParams[SignKey("symbol")][2] = <<"B", "T", "C", "/", "U", "S", "D", " ", "T">>
    /\ sParams[SignKey("quantity")] = <<"int", 1>>
    /\ QueryOf(sOuts[2].out) =
        <<"q", "u", "a", "n", "t", "i", "t", "y", "=", "1", "&",
          "s", "i", "d", "e", "=", "B", "U", "Y", "&",
          "s", "y", "m", "b", "o", "l", "=",
          "B", "T", "C", "%", "2", "F", "U", "S", "D", "+", "T", "&",
          "t", "i", "m", "e", "s", "t", "a", "m", "p", "=", "2">>
    /\ sCaller = sParams

\* C19 (as claimed): two calls of build_signed_query with the same parameter
\* map and the same secret return the same string, whose signature is 64
\* lowercase hexadecimal characters, for every map, one without a timestamp
\* included.
C19_SigningIsDeterministic ==
    Len(sOuts) = 2 =>
        /\ sOuts[1].out = sOuts[2].out
        /\ \A c \in DOMAIN sOuts :
            /\ Len(SignatureOf(sOuts[c].out)) = 64
            /\ \A i \in 1 .. 64 :
                \E d \in DOMAIN HexLower : SignatureOf(sOuts[c].out)[i] = HexLower[d]

\* The command field of the payload holds a text that, stripped and in upper
\* case, is neither a canonical command nor the legacy ENTER.
UnknownCommand(raw) ==
    /\ raw.command \notin {Absent, NoneT, <<>>}
    /\ ~IsTvCommand(Upper(Strip(raw.command)))
    /\ Upper(Strip(raw.command)) # <<"ENTER">>

\* C20 (as claimed): a payload whose command is neither a canonical command
\* nor ENTER fails to map with an "Unsupported command" error, so that the
\* webhook answers 400 and forwards nothing, whatever its side and code hold.
C20_UnknownCommandRejected ==
    (tvResult # NotMapped /\ UnknownCommand(tvRaw)) =>
        /\ tvResult.raised = "ValueError"
        /\ tvResult.detail = "Unsupported command"

(***************************************************************************)
(* C21                                                                     *)
(***************************************************************************)
\* The side field of the JSON body holds a text that is none of buy, sell,
\* long, short in any case.
InvalidSideToken(raw) ==
    /\ raw.side \notin {Absent, NoneT, <<>>}
    /\ Strip(Lower(raw.side)) \notin {<<"buy">>, <<"sell">>, <<"long">>, <<"short">>}

\* C21: every payload whose side field is non-empty and is not one of buy,
\* sell, long, short (in any case) fails to normalize with an error, whatever
\* its command and code fields hold.
C21_InvalidSideFails ==
    (tvResult # NotMapped /\ InvalidSideToken(tvRaw))
        => tvResult.raised = "ValueError"

(***************************************************************************)
(* C22                                                                     *)
(***************************************************************************)
\* The command field, stripped and in upper case, is no member of TvCommand.
NonCanonical(raw) ==
    ~IsTvCommand(Upper(Strip(OrElse(TradingViewWebhookPayload(raw).command, <<"ENTER">>))))

\* The command named by the first of the four phrases that the code text
\* holds, None when it holds none of them.
CommandOfCode(raw) ==
    LET text == IF raw.code \in {Absent, NoneT} THEN <<>> ELSE Lower(raw.code)
    IN  IF Contains(text, <<"short", "exit">>) THEN "EXIT_SHORT"
        ELSE IF Contains(text, <<"long", "exit">>) THEN "EXIT_LONG"
        ELSE IF Contains(text, <<"short", "entry">>) THEN "ENTER_SHORT"
        ELSE IF Contains(text, <<"long", "entry">>) THEN "ENTER_LONG"
        ELSE None

\* The ENTER command of the side field, None when it names no side.
CommandOfSide(raw) ==
    LET text == IF raw.side \in {Absent, NoneT} THEN <<>> ELSE Strip(Lower(raw.side))
    IN  IF text \in {<<"buy">>, <<"long">>} THEN "ENTER_LONG"
        ELSE IF text \in {<<"sell">>, <<"short">>} THEN "ENTER_SHORT"
        ELSE None

\* The mapping failed in normalize_tradingview_payload, or after it.
NormalizationFailed ==
    /\ tvResult.raised = "ValueError"
    /\ tvResult.detail \in {"Invalid side", "Unsupported command", "Cannot determine command"}
FailedAfterNormalization ==
    /\ tvResult.raised = "ValueError"
    /\ tvResult.detail \in {"Invalid order_type", "entry_price required for limit orders",
                            "validation error for NormalizedSignal"}

\* The command is the one of the code text, else the one of the side field,
\* and normalization fails when there is neither.
CodeThenSide(raw) ==
    LET expected == IF CommandOfCode(raw) # None THEN CommandOfCode(raw)
                    ELSE CommandOfSide(raw)
    IN  IF expected # None
        THEN \/ tvResult.raised = None /\ tvResult.signal.command = expected
             \/ FailedAfterNormalization
        ELSE NormalizationFailed

\* C22 as stated: when the command field is not a canonical command, the
\* command is derived from the code text first (short exit, long exit, short
\* entry, long entry, in any case) and, only if none of them matches, from the
\* side field with intent ENTER; with neither a matching code nor a side,
\* normalization fails.
C22_CodeThenSide ==
    (tvResult # NotMapped /\ NonCanonical(tvRaw)) => CodeThenSide(tvRaw)

\* C22 amended: the same, for the payloads whose side field is empty or one
\* of buy, sell, long, short; a payload with any other side text fails to
\* normalize even when its code text matches.
C22_CodeThenSideForValidSide ==
    (tvResult # NotMapped /\ NonCanonical(tvRaw) /\ ~InvalidSideToken(tvRaw))
        => CodeThenSide(tvRaw)

\* A payload without a canonical command whose code text says short exit
\* and whose side says buy is normalized to EXIT_SHORT.
C22_Witness ==
    /\ NonCanonical(tvRaw)
    /\ CommandOfCode(tvRaw) = "EXIT_SHORT"
    /\ CommandOfSide(tvRaw) = "ENTER_LONG"
    /\ tvResult.raised = None
    /\ tvResult.signal.command = "EXIT_SHORT"

(***************************************************************************)
(* C23                                                                     *)
(***************************************************************************)
\* The JSON body supplies a field: it is there, and neither null nor empty.
Supplied(field) == field \notin {Absent, NoneT, <<>>}

\* order_type when the payload supplies it, otherwise entry_type, market
\* when it supplies neither.
EntryTypeOf(raw) ==
    IF Supplied(raw.order_type) THEN Lower(raw.order_type)
    ELSE IF Supplied(raw.entry_type) THEN Lower(raw.entry_type)
    ELSE <<"market">>

\* C23: the normalized entry type is taken from order_type when the payload
\* supplies it, otherwise from the legacy entry_type field, and is market only
\* when the payload supplies neither; a legacy payload with entry_type limit
\* and no order_type is normalized as a limit order.
C23_EntryTypeFromEitherField ==
    (tvResult # NotMapped /\ tvResult.raised = None)
        => <<tvResult.signal.entry_type>> = EntryTypeOf(tvRaw)

(***************************************************************************)
(* C24                                                                     *)
(***************************************************************************)
\* C24: every NormalizedSignal that the normalizer creates with command
\* ENTER_LONG or ENTER_SHORT has a quantity that is present and greater
\* than 0.
C24_EnterHasQuantity ==
    (/\ tvResult # NotMapped
     /\ tvResult.raised = None
     /\ tvResult.signal.command \in {"ENTER_LONG", "ENTER_SHORT"})
        => (tvResult.signal.quantity # NoneNum /\ tvResult.signal.quantity > 0)

(***************************************************************************)
(* C25                                                                     *)
(***************************************************************************)
\* C25: for every webhook payload that normalizes successfully,
\* tradingview_webhook sends exactly one POST to the orchestrator's /signals
\* endpoint carrying the normalized signal and, the orchestrator having
\* answered, responds HTTP 200 with status forwarded and the upstream status
\* code.
C25_ForwardedOnce ==
    (/\ tvResponse # NoTvResponse
     /\ tvResult.raised = None
     /\ tvUpstream.kind = "response")
        => /\ tvPosted = <<tvResult.signal>>
           /\ tvResponse.http = 200
           /\ tvResponse.status = "forwarded"
           /\ tvResponse.upstream_status = tvUpstream.status

(***************************************************************************)
(* C26                                                                     *)
(***************************************************************************)
\* The action kind and the side that a command stands for.
KindOfCommand(command) ==
    CASE command \in {"ENTER_LONG", "ENTER_SHORT"} -> "OPEN_POSITION"
      [] command \in {"EXIT_LONG", "EXIT_SHORT", "EXIT_LONG_ALL", "EXIT_SHORT_ALL"} ->
            "CLOSE_POSITION_FULL"
      [] command \in {"EXIT_LONG_PARTIAL", "EXIT_SHORT_PARTIAL"} -> "CLOSE_POSITION_PARTIAL"
      [] command = "CANCEL_ALL" -> "CLOSE_ALL_POSITIONS"
SideOfCommand(command) ==
    CASE command \in {"ENTER_LONG", "EXIT_LONG", "EXIT_LONG_ALL", "EXIT_LONG_PARTIAL"} -> "long"
      [] command \in {"ENTER_SHORT", "EXIT_SHORT", "EXIT_SHORT_ALL", "EXIT_SHORT_PARTIAL"} ->
            "short"
      [] command = "CANCEL_ALL" -> None

\* C26: map_command_to_action is a total, deterministic function of the
\* command: ENTER_* give OPEN_POSITION; EXIT_*, EXIT_*_ALL give
\* CLOSE_POSITION_FULL; EXIT_*_PARTIAL give CLOSE_POSITION_PARTIAL carrying
\* tp_close_pct; CANCEL_ALL gives CLOSE_ALL_POSITIONS with side None and
\* quantity None; the side of the action always comes from the command,
\* never from the side field of the request.
C26_ActionOfCommand ==
    rtAction # NoAction =>
        /\ rtAction.action_type = KindOfCommand(rtRequest.command)
        /\ rtAction.side = SideOfCommand(rtRequest.command)
        /\ rtAction.action_type = "CLOSE_POSITION_PARTIAL"
              => rtAction.tp_close_pct = rtRequest.tp_close_pct
        /\ rtRequest.command = "CANCEL_ALL"
              => (rtAction.side = None /\ rtAction.quantity = NoneNum)

\* An EXIT_SHORT_PARTIAL request with side long and a percentage is routed
\* to a partial close of the short side carrying the percentage.
C26_Witness ==
    /\ rtRequest.command = "EXIT_SHORT_PARTIAL"
    /\ rtRequest.side = "long"
    /\ rtRequest.tp_close_pct = 50
    /\ rtAction.action_type = "CLOSE_POSITION_PARTIAL"
    /\ rtAction.side = "short"
    /\ rtAction.tp_close_pct = 50

(***************************************************************************)
(* C27                                                                     *)
(***************************************************************************)
\* The direction and positionSide that a command implies: an entry buys the
\* long side and sells the short side, an exit does the opposite.
DirectionOfCommand(command) ==
    IF command \in {"ENTER_LONG", "EXIT_SHORT", "EXIT_SHORT_ALL", "EXIT_SHORT_PARTIAL"}
    THEN "BUY" ELSE "SELL"
PositionSideOfCommand(command) ==
    IF SideOfCommand(command) = "long" THEN "LONG" ELSE "SHORT"

\* C27: every order that the gateway sends to the exchange has a buy/sell
\* direction and a positionSide that agree with the side implied by its
\* command (EXIT_LONG is SELL with positionSide LONG, ENTER_SHORT is SELL with
\* positionSide SHORT), also when the side field of the request disagrees
\* with the command.
C27_WireAgreesWithCommand ==
    \A i \in DOMAIN exCalls :
        /\ exCalls[i].request.side = DirectionOfCommand(exCalls[i].request.command)
        /\ exCalls[i].request.positionSide =
                PositionSideOfCommand(exCalls[i].request.command)

(***************************************************************************)
(* C28                                                                     *)
(***************************************************************************)
\* The request of the gateway with the side that its command implies.
WithSideOfCommand(request) ==
    [request EXCEPT !.side = SideOfCommand(request.command),
                    !.account_id = cAccount.account_id]

\* C28: for every /orders/open request with an ENTER_* or bare EXIT_*
\* command, a quantity greater than 0 and no side, the gateway fills in the
\* side implied by the command and goes on to handle the order (dry
\* acceptance or exchange call) instead of failing.
C28_SideFilledIn ==
    (/\ gwReply # NoGwReply
     /\ cOrder.command \in {"ENTER_LONG", "ENTER_SHORT", "EXIT_LONG", "EXIT_SHORT"}
     /\ cOrder.quantity # NoneNum /\ cOrder.quantity > 0
     /\ cOrder.side = None)
        => gwReply = handle_bingx_order(cAccount, WithSideOfCommand(cOrder), gwEnv, cReply)

(***************************************************************************)
(* C29                                                                     *)
(***************************************************************************)
\* The account at position j of the fan-out had credentials where the
\* orchestrator resolved the profile and has none where the gateway runs.
LostCredentials(j) ==
    /\ j \in DOMAIN accounts
    /\ HasCredentials(accounts[j], env)
    /\ ~HasCredentials(accounts[j], gwEnv)

\* For the account at position j: nothing is sent to the exchange, the
\* gateway's answer is 400, the entry recorded is an error entry of that
\* account, and at the end of the request every account of the fan-out has
\* been dispatched and has an entry.
RefusedAndIsolated(j) ==
    /\ ExchangeCallsFor(accounts[j]) = {}
    /\ (pc = "await" /\ idx = j /\ gwReply # NoGwReply) => gwReply.http = 400
    /\ j <= Len(results)
          => (results[j].account_id = accounts[j] /\ results[j].status = "error")
    /\ pc = "done"
          => /\ Len(posted) = Len(accounts)
             /\ Len(results) = Len(accounts)
             /\ \A k \in DOMAIN accounts :
                    /\ posted[k].account_id = accounts[k]
                    /\ results[k].account_id = accounts[k]

\* C29 as stated: if an account's credentials are present when the
\* orchestrator resolves the routing profile but absent when the gateway
\* handles that account's order, the gateway makes no call to the exchange and
\* answers 400, the orchestrator records an error result for that account,
\* and the remaining accounts of the fan-out are still dispatched.
C29_LostCredentialsRefused ==
    \A j \in DOMAIN accounts : LostCredentials(j) => RefusedAndIsolated(j)

\* C29 amended: the same for the orders that the gateway executes, those
\* with command ENTER_LONG, ENTER_SHORT, EXIT_LONG or EXIT_SHORT; a request
\* with any other command is acknowledged with 200 without a look at the
\* credentials.
C29_LostCredentialsRefusedForExecutedOrders ==
    \A j \in DOMAIN accounts :
        (/\ LostCredentials(j)
         /\ signal.command \in {"ENTER_LONG", "ENTER_SHORT", "EXIT_LONG", "EXIT_SHORT"})
            => RefusedAndIsolated(j)

\* An ENTER_LONG fan-out to two accounts, the first of which lost its
\* credentials: its entry is the gateway's refusal, and the order of the
\* second account reached the exchange.
C29_Witness ==
    /\ pc = "done"
    /\ signal.command = "ENTER_LONG"
    /\ accounts = <<"bingx_1", "bingx_2">>
    /\ LostCredentials(1)
    /\ results[1].status = "error"
    /\ FromGatewayReply(results[1])
    /\ ExchangeCallsFor("bingx_1") = {}
    /\ ExchangeCallsFor("bingx_2") # {}

(***************************************************************************)
(* C30                                                                     *)
(***************************************************************************)
\* The entry at position j records an httpx.HTTPError of these kinds.
EndedIn(j, kinds) ==
    /\ j \in DOMAIN results
    /\ results[j].status = "error"
    /\ results[j].error \in kinds

\* C30 as stated: if the orchestrator's call to the gateway for an account
\* ends in a timeout or connection error, recorded as an error result for
\* that account, then no order for that account and signal has been sent, or
\* will later be sent, to the exchange.
C30_NoOrderAfterTransportError ==
    \A j \in DOMAIN results :
        EndedIn(j, {"timeout", "connect_error"})
            => ExchangeCallsFor(results[j].account_id) = {}

\* C30 amended: the same for a connection error alone; after a timeout the
\* gateway may have sent the order already, or send it later.
C30_NoOrderAfterConnectError ==
    \A j \in DOMAIN results :
        EndedIn(j, {"connect_error"})
            => ExchangeCallsFor(results[j].account_id) = {}

\* A fan-out to two accounts has ended: the POST for the first failed to
\* connect and no order of it reached the exchange, the order of the second
\* did.
C30_Witness ==
    /\ pc = "done"
    /\ accounts = <<"bingx_1", "bingx_2">>
    /\ EndedIn(1, {"connect_error"})
    /\ ExchangeCallsFor("bingx_1") = {}
    /\ ExchangeCallsFor("bingx_2") # {}
    /\ gwInbox = {}

====
